---- MODULE Spec2Model ----
(***************************************************************************)
(* A model of the bups-engine simulation core: the Entity hierarchy and    *)
(* component container (ecs/Entity.ts), the World registry (ecs/World.ts), *)
(* the SystemManager (ecs/System.ts), the fixed-step rigid-body physics    *)
(* (physics/RigidBody.ts, physics/PhysicsSystem.ts), the Transform         *)
(* component and the editor's RenameEntityCommand.                         *)
(***************************************************************************)
EXTENDS Integers, Sequences, FiniteSets, TLC

(***************************************************************************)
(* Bounds of the model.                                                    *)
(***************************************************************************)
\* Number of Entity objects that may be constructed (ids 0..NumEntities-1).
NumEntities == 3
\* Number of Component instances that may be constructed.
MaxInst == 3
\* Number of Component instances constructed in SpecDestroy.
DestroyInst == 2
\* Longest World.rootEntities list explored (addEntity may repeat an entry).
MaxRoots == 2
\* Depth of the call stack: a deeper recursion raises RangeError.  Any depth
\* above the number of entities gives the same results.
MaxStack == 6

Ent == 0 .. (NumEntities - 1)
Null == -1
CompTypes == {"Transform", "RigidBody"}
\* The name the Entity constructor gives by default: `Entity_${nextEntityId}`.
DefaultName(e) == "Entity_" \o ToString(e)
\* The names an entity may carry: the default ones and one chosen by a caller.
Names == {DefaultName(e) : e \in Ent} \cup {"Target"}
\* The tags the editor gives to entities.
Tags == {"light", "camera"}
\* No RenameEntityCommand has been constructed.
NoCommand == <<Null, "", "">>
Inst == 1 .. MaxInst

VARIABLES
  \* ---- Entity (ecs/Entity.ts)
  nextEntityId,   \* module counter: ids below it belong to constructed entities
  active,         \* Entity.active
  parent,         \* Entity.parent (Null when none)
  children,       \* Entity.children, an array
  components,     \* Entity.components: a Map in insertion order, <<type, instance>>
  \* ---- Component instances
  nextInst,       \* instances constructed so far
  onAttachCalls,  \* per instance: times onAttach ran
  onDetachCalls,  \* per instance: times onDetach ran
  detachLog,      \* the onDetach calls made by the latest call, in order: <<entity, instance>>
  \* ---- World (ecs/World.ts)
  entities,       \* World.entities: the Map's keys in insertion order
  rootEntities,   \* World.rootEntities
  name,           \* Entity.name
  tags,           \* Entity.tags
  entitiesByName, \* World.entitiesByName: name -> Set of entities, insertion order
  entitiesByTag,  \* World.entitiesByTag: tag -> Set of entities, insertion order
  command,        \* the RenameEntityCommand constructed last
  \* ---- the latest call: <<operation, argument, argument, result, type name>>
  last,
  trace,          \* the operations whose calls are recorded (fixed by Init)
  \* ---- SystemManager (ecs/System.ts)
  systems,        \* SystemManager.systems
  systemsByType,  \* SystemManager.systemsByType: class name -> system (0: no entry)
  sysEnabled,     \* System.enabled
  inserted,       \* the registered systems in the order addSystem inserted them
  callLog,        \* the System methods called by the latest call: <<method, system, caller>>
  \* ---- PhysicsSystem (physics/PhysicsSystem.ts)
  accumulator,    \* PhysicsSystem.accumulator
  fixedTimeStep,  \* PhysicsSystem.fixedTimeStep
  elapsed,        \* the exact sum of the deltas passed to update() so far
  passes,         \* fixedUpdate passes run by update() so far
  simulated,      \* the sum of the deltas those passes were called with
  inexact,        \* whether an accumulator addition or subtraction was rounded
  collisionCallbacks, \* PhysicsSystem.collisionCallbacks
  \* ---- RigidBody and Transform components, by entity
  rigidBody,      \* the fields of the entity's RigidBody
  transform,      \* position and rotation of the entity's Transform
  collisionLog,   \* the colliding pairs of the latest fixedUpdate pass
  preCollision,   \* bodies and Transforms when its detectCollisions began
  physOps,        \* calls made on the bodies so far
  \* ---- Component back-references and scripts (scripting/)
  componentEntity, \* Component.entity, per instance (Null: none constructed)
  scriptComponent, \* the fields of the entity's ScriptComponent
  hotReload,      \* HotReload: watchedScripts (insertion order) and status
  \* ---- Editor (editor/CommandHistory.ts)
  history,        \* CommandHistory: undoStack and redoStack of commands
  \* ---- PhysicsSystem.update in progress
  pc,             \* where the call is: "idle" (no call), "test", "body"
  \* ---- Engine (Engine.ts)
  engine          \* Engine: running, lastTime, deltaTime

ecsVars == <<nextEntityId, active, parent, children, components, nextInst,
             onAttachCalls, onDetachCalls, detachLog, entities, rootEntities>>
sysVars == <<systems, systemsByType, sysEnabled, inserted, callLog>>
accVars == <<accumulator, fixedTimeStep, elapsed, passes, simulated, inexact>>
physVars == <<collisionCallbacks, rigidBody, transform, collisionLog, preCollision,
              physOps>>
idxVars == <<name, tags, entitiesByName, entitiesByTag, command>>
extVars == <<componentEntity, scriptComponent, hotReload>>
edVars == <<history, pc, engine>>
vars == <<ecsVars, idxVars, last, trace, sysVars, accVars, physVars, extVars,
          edVars>>

(***************************************************************************)
(* Arrays.                                                                 *)
(***************************************************************************)
Range(s) == {s[i] : i \in 1 .. Len(s)}

\* Array.prototype.indexOf: the first position of x, 0 where JavaScript gives -1.
IndexOf(s, x) ==
  IF \E i \in 1 .. Len(s) : s[i] = x
  THEN CHOOSE i \in 1 .. Len(s) : s[i] = x /\ \A j \in 1 .. (i - 1) : s[j] # x
  ELSE 0

\* Array.prototype.splice(index, 1).
Splice1(s, i) == SubSeq(s, 1, i - 1) \o SubSeq(s, i + 1, Len(s))

\* Number of occurrences of x in s.
Count(s, x) == Cardinality({i \in 1 .. Len(s) : s[i] = x})

\* Array.prototype.filter.
RECURSIVE Filter(_, _)
Filter(s, keep) ==
  IF s = <<>> THEN <<>>
  ELSE (IF Head(s) \in keep THEN <<Head(s)>> ELSE <<>>) \o Filter(Tail(s), keep)

(***************************************************************************)
(* Entity.  The mutable fields of all entities form a heap record h that   *)
(* the methods transform; `thrown` is set when a call ends by an exception.*)
(***************************************************************************)
Heap ==
  [parent |-> parent, children |-> children, active |-> active,
   components |-> components, onDetachCalls |-> onDetachCalls,
   detachLog |-> <<>>, thrown |-> FALSE]

\* Entity.removeChild (Entity.ts 82-88).
RemoveChildNoParentReset(h, p, c) ==
  LET index == IndexOf(h.children[p], c) IN
  IF index # 0
  THEN [h EXCEPT !.children[p] = Splice1(h.children[p], index)]
  ELSE h
RemoveChildH(h, p, c) ==
  LET index == IndexOf(h.children[p], c) IN
  IF index # 0
  THEN [h EXCEPT !.children[p] = Splice1(h.children[p], index),
                 !.parent[c] = Null]
  ELSE h

\* Entity.addChild (Entity.ts 74-80).
AddChildH(h, p, c) ==
  LET h1 == IF h.parent[c] # Null THEN RemoveChildH(h, h.parent[c], c) ELSE h
  IN [h1 EXCEPT !.parent[c] = p, !.children[p] = Append(h1.children[p], c)]

\* The loop of destroy() over the component Map (Entity.ts 112-114).
RECURSIVE DetachAll(_, _, _)
DetachAll(h, e, comps) ==
  IF comps = <<>> THEN h
  ELSE LET inst == Head(comps)[2] IN
       DetachAll([h EXCEPT !.onDetachCalls[inst] = @ + 1,
                           !.detachLog = Append(@, <<e, inst>>)],
                 e, Tail(comps))

\* Entity.destroy (Entity.ts 105-123).  `depth` is the free call stack.
RECURSIVE DestroyH(_, _, _)
RECURSIVE DestroyEach(_, _, _)
DestroyParentFirst(h, e, depth) ==
  IF h.thrown THEN h
  ELSE IF depth = 0 THEN [h EXCEPT !.thrown = TRUE]
  ELSE LET snapshot == h.children[e]
           h2 == DetachAll(h, e, h.components[e])
           h3 == [h2 EXCEPT !.components[e] = <<>>]
           h4 == DestroyEach(h3, snapshot, depth - 1)
       IN IF h4.thrown THEN h4
          ELSE LET h5 == IF h4.parent[e] # Null
                         THEN RemoveChildH(h4, h4.parent[e], e) ELSE h4
               IN [h5 EXCEPT !.active[e] = FALSE]
DestroyH(h, e, depth) ==
  IF h.thrown THEN h
  ELSE IF depth = 0 THEN [h EXCEPT !.thrown = TRUE]
  ELSE LET h1 == DestroyEach(h, h.children[e], depth - 1) IN
       IF h1.thrown THEN h1
       ELSE LET h2 == DetachAll(h1, e, h1.components[e])
                h3 == [h2 EXCEPT !.components[e] = <<>>]
                h4 == IF h3.parent[e] # Null
                      THEN RemoveChildH(h3, h3.parent[e], e) ELSE h3
            IN [h4 EXCEPT !.active[e] = FALSE]
\* for (const child of [...this.children]) child.destroy()
DestroyEach(h, snapshot, depth) ==
  IF snapshot = <<>> \/ h.thrown THEN h
  ELSE DestroyEach(DestroyH(h, Head(snapshot), depth), Tail(snapshot), depth)

Constructed == 0 .. (nextEntityId - 1)

\* The record kept of the latest call.
NoCall == <<"-", Null, Null, 0, "">>
Note(call) == IF call[1] \in trace THEN call ELSE NoCall

\* Entity.hasComponent / getComponent (Entity.ts 34-40): 0 stands for undefined.
HasComponentIn(comps, t) == \E i \in 1 .. Len(comps) : comps[i][1] = t
GetComponentIn(comps, t) ==
  IF HasComponentIn(comps, t)
  THEN (CHOOSE pr \in Range(comps) : pr[1] = t)[2]
  ELSE 0
HasComponent(e, t) == HasComponentIn(components[e], t)
GetComponent(e, t) == GetComponentIn(components[e], t)

(***************************************************************************)
(* Actions on entities.                                                    *)
(***************************************************************************)
\* new Entity() (Entity.ts 15-18), not registered in any World.
NewEntity ==
  /\ nextEntityId < NumEntities
  /\ nextEntityId' = nextEntityId + 1
  /\ last' = Note(<<"new", nextEntityId, Null, 0, "">>)
  /\ UNCHANGED <<trace, extVars, edVars, idxVars, sysVars, accVars, physVars>>
  /\ UNCHANGED <<active, parent, children, components, nextInst, onAttachCalls,
                 onDetachCalls, entities, rootEntities>>
  /\ detachLog' = <<>>

AddChild(p, c) ==
  /\ p \in Constructed /\ c \in Constructed
  /\ LET h == AddChildH(Heap, p, c) IN
       /\ parent' = h.parent
       /\ children' = h.children
  /\ last' = Note(<<"addChild", p, c, parent[c], "">>)
  /\ UNCHANGED <<trace, extVars, edVars, idxVars, sysVars, accVars, physVars>>
  /\ UNCHANGED <<nextEntityId, active, components, nextInst, onAttachCalls,
                 onDetachCalls, entities, rootEntities>>
  /\ detachLog' = <<>>

RemoveChild(p, c) ==
  /\ p \in Constructed /\ c \in Constructed
  /\ LET h == RemoveChildH(Heap, p, c) IN
       /\ parent' = h.parent
       /\ children' = h.children
  /\ last' = Note(<<"removeChild", p, c, 0, "">>)
  /\ UNCHANGED <<trace, extVars, edVars, idxVars, sysVars, accVars, physVars>>
  /\ UNCHANGED <<nextEntityId, active, components, nextInst, onAttachCalls,
                 onDetachCalls, entities, rootEntities>>
  /\ detachLog' = <<>>

\* e.destroy(); the call returns ("ok") or ends by RangeError ("threw").
Destroy(e) ==
  /\ e \in Constructed
  /\ LET h == DestroyH(Heap, e, MaxStack) IN
       /\ parent' = h.parent
       /\ children' = h.children
       /\ active' = h.active
       /\ components' = h.components
       /\ onDetachCalls' = h.onDetachCalls
       /\ detachLog' = h.detachLog
       /\ last' = Note(<<"destroy", e, Null, IF h.thrown THEN 1 ELSE 0, "">>)
       /\ UNCHANGED <<trace, extVars, edVars, idxVars, sysVars, accVars, physVars>>
  /\ UNCHANGED <<nextEntityId, nextInst, onAttachCalls, entities, rootEntities>>

\* Entity.addComponent (Entity.ts 20-32): the instance is constructed before
\* the duplicate test; on a duplicate it is dropped and the Map is kept.
AddComponentOverwrite(comps, t, inst) ==
  IF HasComponentIn(comps, t)
  THEN [i \in 1 .. Len(comps) |-> IF comps[i][1] = t THEN <<t, inst>> ELSE comps[i]]
  ELSE Append(comps, <<t, inst>>)
AddComponentMap(comps, t, inst) ==
  IF HasComponentIn(comps, t) THEN comps ELSE Append(comps, <<t, inst>>)

\* What addComponent returns: the attached instance.
AddComponentResult(comps, t, inst) ==
  IF HasComponentIn(comps, t) THEN GetComponentIn(comps, t) ELSE inst

AddComponentUpTo(e, t, limit) ==
  /\ e \in Constructed
  /\ nextInst < limit
  /\ LET inst == nextInst + 1 IN
       /\ nextInst' = inst
       /\ components' = [components EXCEPT ![e] = AddComponentMap(@, t, inst)]
       /\ onAttachCalls' = IF HasComponent(e, t) THEN onAttachCalls
                           ELSE [onAttachCalls EXCEPT ![inst] = @ + 1]
       /\ last' = Note(<<"addComponent", e, Null,
                         AddComponentResult(components[e], t, inst), t>>)
       /\ componentEntity' = [componentEntity EXCEPT ![inst] = e]
  /\ UNCHANGED <<trace, scriptComponent, hotReload, edVars, idxVars, sysVars, accVars, physVars>>
  /\ UNCHANGED <<nextEntityId, active, parent, children, onDetachCalls,
                 entities, rootEntities>>
  /\ detachLog' = <<>>

AddComponent(e, t) == AddComponentUpTo(e, t, MaxInst)

\* Entity.removeComponent (Entity.ts 42-52); the result is 1 for true.
RemoveComponent(e, t) ==
  /\ e \in Constructed
  /\ LET inst == GetComponent(e, t) IN
       IF inst # 0
       THEN /\ onDetachCalls' = [onDetachCalls EXCEPT ![inst] = @ + 1]
            /\ detachLog' = <<(<<e, inst>>)>>
            /\ components' = [components EXCEPT ![e] =
                                Filter(@, Range(@) \ {<<t, inst>>})]
            /\ last' = Note(<<"removeComponent", e, Null, 1, t>>)
       ELSE /\ UNCHANGED <<onDetachCalls, components>>
            /\ detachLog' = <<>>
            /\ last' = Note(<<"removeComponent", e, Null, 0, t>>)
  /\ UNCHANGED <<trace, extVars, edVars, idxVars, sysVars, accVars, physVars>>
  /\ UNCHANGED <<nextEntityId, active, parent, children, nextInst, onAttachCalls,
                 entities, rootEntities>>

\* Component.entity of the instances the entities hold; no entity has a
\* ScriptComponent and HotReload watches nothing.
OwnerOf(inst) ==
  IF \E e \in DOMAIN components : \E k \in 1 .. Len(components[e]) :
       components[e][k][2] = inst
  THEN CHOOSE e \in DOMAIN components : \E k \in 1 .. Len(components[e]) :
         components[e][k][2] = inst
  ELSE Null
NoScript ==
  [scriptName |-> "", sourceCode |-> "", compiled |-> FALSE, error |-> "",
   startCalled |-> FALSE, variables |-> 0]
NewHotReload == [watchedScripts |-> <<>>, status |-> "idle"]
InitExt ==
  /\ componentEntity = [i \in DOMAIN onAttachCalls |-> OwnerOf(i)]
  /\ scriptComponent = [e \in DOMAIN components |-> NoScript]
  /\ hotReload = NewHotReload
\* CommandHistory as constructed (CommandHistory.ts 15-16).
NewHistory == [undoStack |-> <<>>, redoStack |-> <<>>]
\* The fields of Engine as initialised (Engine.ts 31-33).
NewEngine == [running |-> FALSE, lastTime |-> 0, deltaTime |-> 0]
InitEd ==
  /\ history = NewHistory
  /\ pc = "idle"
  /\ engine = NewEngine

\* Entities constructed with their default names and no tags; those of the
\* list were registered by World.addEntity.
InitIndex(registered) ==
  /\ name = [e \in Ent |-> DefaultName(e)]
  /\ tags = [e \in Ent |-> {}]
  /\ entitiesByName = [n \in Names |->
                         Filter(registered, {e \in Ent : DefaultName(e) = n})]
  /\ entitiesByTag = [t \in Tags |-> <<>>]
  /\ command = NoCommand

InitEcs ==
  /\ nextEntityId = 0
  /\ active = [e \in Ent |-> TRUE]
  /\ parent = [e \in Ent |-> Null]
  /\ children = [e \in Ent |-> <<>>]
  /\ components = [e \in Ent |-> <<>>]
  /\ nextInst = 0
  /\ onAttachCalls = [i \in Inst |-> 0]
  /\ onDetachCalls = [i \in Inst |-> 0]
  /\ detachLog = <<>>
  /\ entities = <<>>
  /\ rootEntities = <<>>
  /\ InitIndex(<<>>)
  /\ InitExt
  /\ InitEd

InitLast(t) == last = NoCall /\ trace = t

(***************************************************************************)
(* World (ecs/World.ts).                                                   *)
(***************************************************************************)
\* Map.prototype.set on the entity map: a new key goes last, a known key stays.
MapSet(keys, k) == IF k \in Range(keys) THEN keys ELSE Append(keys, k)

\* Map.prototype.delete.
MapDelete(keys, k) == Filter(keys, Range(keys) \ {k})

\* World.getEntities (World.ts 64-66).
GetEntities == Filter(entities, {e \in Ent : active[e]})

\* World.getRootEntities (World.ts 68-70).
GetRootEntities == Filter(rootEntities, {e \in Ent : active[e]})

\* World.addEntity (World.ts 23-34).
AddEntityRoots(roots, e, par) == IF par = Null THEN Append(roots, e) ELSE roots

\* World.indexEntityName and unindexEntityName of the World that keeps a name
\* index; a key without entities is the same as no key.
IndexEntityName(byName, e, n) == [byName EXCEPT ![n] = MapSet(@, e)]
UnindexEntityName(byName, e, n) == [byName EXCEPT ![n] = MapDelete(@, e)]

\* The loops over entity.getTags() calling indexEntityTag / unindexEntityTag
\* (World.ts 30-33, 45-48, 84-96).
IndexEntityTags(byTag, e, ts) ==
  [t \in Tags |-> IF t \in ts THEN MapSet(byTag[t], e) ELSE byTag[t]]
UnindexEntityTags(byTag, e, ts) ==
  [t \in Tags |-> IF t \in ts THEN MapDelete(byTag[t], e) ELSE byTag[t]]

AddEntity(e) ==
  /\ e \in Constructed
  /\ Len(rootEntities) < MaxRoots
  /\ entities' = MapSet(entities, e)
  /\ rootEntities' = AddEntityRoots(rootEntities, e, parent[e])
  /\ entitiesByName' = IndexEntityName(entitiesByName, e, name[e])
  /\ entitiesByTag' = IndexEntityTags(entitiesByTag, e, tags[e])
  /\ last' = Note(<<"addEntity", e, Null, 0, "">>)
  /\ UNCHANGED <<trace, extVars, edVars, name, tags, command, sysVars, accVars, physVars>>
  /\ UNCHANGED <<nextEntityId, active, parent, children, components, nextInst,
                 onAttachCalls, onDetachCalls>>
  /\ detachLog' = <<>>

\* World.createEntity(name) (World.ts 17-21).
CreateEntityNamed(n) ==
  /\ nextEntityId < NumEntities
  /\ Len(rootEntities) < MaxRoots
  /\ nextEntityId' = nextEntityId + 1
  /\ name' = [name EXCEPT ![nextEntityId] = n]
  /\ entities' = MapSet(entities, nextEntityId)
  /\ rootEntities' = AddEntityRoots(rootEntities, nextEntityId, parent[nextEntityId])
  /\ entitiesByName' = IndexEntityName(entitiesByName, nextEntityId, n)
  /\ entitiesByTag' = IndexEntityTags(entitiesByTag, nextEntityId, tags[nextEntityId])
  /\ last' = Note(<<"createEntity", nextEntityId, Null, 0, "">>)
  /\ UNCHANGED <<trace, extVars, edVars, tags, command, sysVars, accVars, physVars>>
  /\ UNCHANGED <<active, parent, children, components, nextInst,
                 onAttachCalls, onDetachCalls>>
  /\ detachLog' = <<>>

\* World.createEntity() without a name.
CreateEntity == CreateEntityNamed(DefaultName(nextEntityId))

\* World.removeEntity (World.ts 36-49); when destroy() throws, the lines
\* after it do not run.
RemoveEntity(e) ==
  /\ e \in Constructed
  /\ LET h == DestroyH(Heap, e, MaxStack)
         rootIndex == IndexOf(rootEntities, e) IN
       /\ parent' = h.parent
       /\ children' = h.children
       /\ active' = h.active
       /\ components' = h.components
       /\ onDetachCalls' = h.onDetachCalls
       /\ detachLog' = h.detachLog
       /\ entities' = IF h.thrown THEN entities ELSE MapDelete(entities, e)
       /\ rootEntities' = IF ~h.thrown /\ rootIndex # 0
                          THEN Splice1(rootEntities, rootIndex)
                          ELSE rootEntities
       /\ entitiesByName' = IF h.thrown THEN entitiesByName
                            ELSE UnindexEntityName(entitiesByName, e, name[e])
       /\ entitiesByTag' = IF h.thrown THEN entitiesByTag
                           ELSE UnindexEntityTags(entitiesByTag, e, tags[e])
       /\ last' = Note(<<"removeEntity", e, Null, IF h.thrown THEN 1 ELSE 0, "">>)
       /\ UNCHANGED <<trace, extVars, edVars, name, tags, command, sysVars, accVars, physVars>>
  /\ UNCHANGED <<nextEntityId, nextInst, onAttachCalls>>

(***************************************************************************)
(* Numbers.  A JavaScript number is a binary floating-point value: a       *)
(* significand of a fixed number of bits (53 in IEEE-754 binary64) times a *)
(* power of two, every result rounded to the nearest such value, ties to   *)
(* the even significand.  The accumulator is modelled with the same rule   *)
(* and a significand of MantBits bits; values are counted in units of the  *)
(* smallest representable quantum.                                         *)
(***************************************************************************)
MantBits == 3
\* Largest delta passed to update(), and largest total of the deltas.
MaxDelta == 8
MaxElapsed == 14

RECURSIVE Pow2(_)
Pow2(n) == IF n = 0 THEN 1 ELSE 2 * Pow2(n - 1)

\* The spacing of the representable values around x >= 0.
RECURSIVE Ulp(_)
Ulp(x) == IF x < Pow2(MantBits) THEN 1 ELSE 2 * Ulp(x \div 2)

\* Round to nearest, ties to even: x to a multiple of the spacing u.
RoundToMultiple(x, u) ==
  LET lo == (x \div u) * u
      r == x - lo
  IN IF 2 * r < u THEN lo
     ELSE IF 2 * r > u THEN lo + u
     ELSE IF (lo \div u) % 2 = 0 THEN lo ELSE lo + u
RoundNonNeg(x) == RoundToMultiple(x, Ulp(x))
Fl(x) == IF x >= 0 THEN RoundNonNeg(x) ELSE 0 - RoundNonNeg(0 - x)

Representable(x) == Fl(x) = x

(***************************************************************************)
(* Vectors.  The coordinates of positions, velocities and forces are       *)
(* rational numbers <<numerator, denominator>> in lowest terms with a      *)
(* positive denominator.  As a JavaScript number has a bounded precision,  *)
(* so has a coordinate: the result of an operation whose denominator in    *)
(* lowest terms exceeds Precision is rounded to the nearest multiple of    *)
(* 1 / Precision (a tie upwards); every other result is exact.  The        *)
(* values that are not finite have the denominator 0: <<1, 0>> is          *)
(* Infinity, <<-1, 0>> is -Infinity and <<0, 0>> is NaN.                   *)
(***************************************************************************)
Precision == 256

Abs(x) == IF x < 0 THEN 0 - x ELSE x
RECURSIVE GCD(_, _)
GCD(a, b) == IF b = 0 THEN a ELSE GCD(b, a % b)
\* n / d in lowest terms, d >= 0; n / 0 is an infinity of the sign of n, and
\* 0 / 0 is NaN.
Reduce(n, d) ==
  LET g == GCD(Abs(n), d) IN IF g = 0 THEN <<0, 0>> ELSE <<n \div g, d \div g>>
\* n / d rounded to a multiple of 1 / Precision, d > 0.
Round(n, d) ==
  Reduce((n \div d) * Precision + (2 * (n % d) * Precision + d) \div (2 * d),
         Precision)
\* A fraction r in lowest terms, brought within the precision.
Bounded(r) == IF r[2] <= Precision THEN r ELSE Round(r[1], r[2])
\* The number n / d.
Norm(n, d) ==
  LET s == IF d < 0 THEN 0 - 1 ELSE 1 IN Bounded(Reduce(s * n, s * d))

R0 == <<0, 1>>
R1 == <<1, 1>>
Half == <<1, 2>>
NaN == <<0, 0>>
\* Number.isFinite.
IsFinite(a) == a[2] # 0
RNeg(a) == <<0 - a[1], a[2]>>
\* The sum of two infinities is that infinity when they are equal and NaN
\* when they are opposite.
RAdd(a, b) ==
  IF a[2] = 0 /\ b[2] = 0 THEN (IF a = b THEN a ELSE NaN)
  ELSE Norm(a[1] * b[2] + b[1] * a[2], a[2] * b[2])
RSub(a, b) == RAdd(a, RNeg(b))
RMul(a, b) == Norm(a[1] * b[1], a[2] * b[2])
\* a / b: the sign of b goes to the numerator, so that x / 0 and
\* Infinity / x keep their signs.
RDiv(a, b) ==
  IF b[1] < 0 THEN Norm(0 - a[1] * b[2], 0 - a[2] * b[1])
  ELSE Norm(a[1] * b[2], a[2] * b[1])
\* a < b and a <= b: false when a or b is NaN.
RLt(a, b) ==
  IF a[2] = 0 /\ b[2] = 0 THEN a # NaN /\ b # NaN /\ a[1] < b[1]
  ELSE a[1] * b[2] < b[1] * a[2]
RLe(a, b) ==
  IF a[2] = 0 /\ b[2] = 0 THEN a # NaN /\ b # NaN /\ a[1] <= b[1]
  ELSE a # NaN /\ b # NaN /\ a[1] * b[2] <= b[1] * a[2]
\* Math.min / Math.max: NaN when an argument is NaN.
RMin(a, b) == IF a = NaN \/ b = NaN THEN NaN ELSE IF RLt(b, a) THEN b ELSE a
RMax(a, b) == IF a = NaN \/ b = NaN THEN NaN ELSE IF RLt(a, b) THEN b ELSE a

\* Math.sqrt: exact on the square of a rational, otherwise rounded down to a
\* multiple of 1 / Precision.
RECURSIVE ISqrt(_)
ISqrt(n) ==
  IF n < 2 THEN n
  ELSE LET s == 2 * ISqrt(n \div 4) IN
       IF (s + 1) * (s + 1) <= n THEN s + 1 ELSE s
IsSquare(n) == ISqrt(n) * ISqrt(n) = n
RSqrt(q) ==
  IF IsSquare(q[1]) /\ IsSquare(q[2])
  THEN <<ISqrt(q[1]), ISqrt(q[2])>>
  ELSE Norm(ISqrt((q[1] \div q[2]) * Precision * Precision
                  + ((q[1] % q[2]) * Precision * Precision) \div q[2]), Precision)

\* THREE.Vector3.
Axes == 1 .. 3
Zero == <<R0, R0, R0>>
Ones == <<R1, R1, R1>>
VAdd(a, b) == <<RAdd(a[1], b[1]), RAdd(a[2], b[2]), RAdd(a[3], b[3])>>
VSub(a, b) == <<RSub(a[1], b[1]), RSub(a[2], b[2]), RSub(a[3], b[3])>>
VScale(v, s) == <<RMul(v[1], s), RMul(v[2], s), RMul(v[3], s)>>
\* divideScalar(s) is multiplyScalar(1 / s).
VDivide(v, s) == VScale(v, RDiv(R1, s))
VDot(a, b) == RAdd(RAdd(RMul(a[1], b[1]), RMul(a[2], b[2])), RMul(a[3], b[3]))
VCross(a, b) ==
  <<RSub(RMul(a[2], b[3]), RMul(a[3], b[2])),
    RSub(RMul(a[3], b[1]), RMul(a[1], b[3])),
    RSub(RMul(a[1], b[2]), RMul(a[2], b[1]))>>
VLength(v) == RSqrt(VDot(v, v))
\* normalize() is divideScalar(length() || 1).
OrOne(x) == IF x = R0 \/ x = NaN THEN R1 ELSE x
VNormalize(v) == VDivide(v, OrOne(VLength(v)))
VDistance(a, b) == VLength(VSub(a, b))

(***************************************************************************)
(* Transform (core/Transform.ts): position and Euler rotation.             *)
(***************************************************************************)
\* Angles are counted in quarter turns.  A quaternion is represented by the
\* Euler angles (order XYZ) that Euler.setFromQuaternion reads from it: x and
\* z within (-2, 2], y within [-1, 1], and z = 0 where y is a quarter turn.
\* Two Euler triples of one rotation give the same quaternion.
Wrap(a) == <<2 * a[2] - ((2 * a[2] - a[1]) % (4 * a[2])), a[2]>>
HalfTurn == <<2, 1>>
\* At y = +-1 the rotation depends on x + z or x - z only.
GimbalLock(x, y, z) ==
  IF y = R1 THEN <<Wrap(RAdd(x, z)), y, R0>>
  ELSE IF y = RNeg(R1) THEN <<Wrap(RSub(x, z)), y, R0>>
  ELSE <<x, y, z>>
\* (x, y, z) and (x + 2, 2 - y, z + 2) are the same rotation.
Canonical(x, y, z) ==
  IF RLt(R1, y)
  THEN GimbalLock(Wrap(RAdd(x, HalfTurn)), RSub(HalfTurn, y), Wrap(RAdd(z, HalfTurn)))
  ELSE IF RLt(y, RNeg(R1))
  THEN GimbalLock(Wrap(RAdd(x, HalfTurn)), RSub(RNeg(HalfTurn), y),
                  Wrap(RAdd(z, HalfTurn)))
  ELSE GimbalLock(Wrap(x), y, Wrap(z))
\* Quaternion.setFromEuler / Euler.setFromQuaternion.
SetFromEuler(euler) == Canonical(euler[1], Wrap(euler[2]), euler[3])
SetFromQuaternion(q) == q
\* Quaternion.premultiply by a rotation about the x axis.
PremultiplyX(q, angle) == SetFromEuler(<<RAdd(q[1], angle), q[2], q[3]>>)
\* A vector turned by k quarter turns about an axis.
TurnX(v, k) ==
  CASE k % 4 = 0 -> v
    [] k % 4 = 1 -> <<v[1], RNeg(v[3]), v[2]>>
    [] k % 4 = 2 -> <<v[1], RNeg(v[2]), RNeg(v[3])>>
    [] k % 4 = 3 -> <<v[1], v[3], RNeg(v[2])>>
TurnY(v, k) ==
  CASE k % 4 = 0 -> v
    [] k % 4 = 1 -> <<v[3], v[2], RNeg(v[1])>>
    [] k % 4 = 2 -> <<RNeg(v[1]), v[2], RNeg(v[3])>>
    [] k % 4 = 3 -> <<RNeg(v[3]), v[2], v[1]>>
TurnZ(v, k) ==
  CASE k % 4 = 0 -> v
    [] k % 4 = 1 -> <<RNeg(v[2]), v[1], v[3]>>
    [] k % 4 = 2 -> <<RNeg(v[1]), RNeg(v[2]), v[3]>>
    [] k % 4 = 3 -> <<v[2], RNeg(v[1]), v[3]>>
\* Vector3.applyQuaternion, for rotations by whole quarter turns.
ApplyQuaternion(v, q) == TurnX(TurnY(TurnZ(v, q[3][1]), q[2][1]), q[1][1])

\* A THREE.Matrix4 is represented by the sequence of the (position,
\* quaternion, scale) triples of which it is the product of the composed
\* matrices, in order: equal sequences denote equal matrices.
IdentityMatrix == <<>>
Compose(position, quaternion, scale) == <<(<<position, quaternion, scale>>)>>
MultiplyMatrices(a, b) == a \o b

NewTransform ==
  [position |-> Zero, rotation |-> Zero, quaternion |-> Zero, scale |-> Ones,
   localMatrix |-> IdentityMatrix, worldMatrix |-> IdentityMatrix,
   matrixNeedsUpdate |-> TRUE]

\* The callback the constructor registers on the Euler rotation.
OnRotationChange(t) ==
  [t EXCEPT !.quaternion = SetFromEuler(t.rotation), !.matrixNeedsUpdate = TRUE]

\* translate without the assignment to the dirty flag.
TranslateUnflagged(t, d) == [t EXCEPT !.position = VAdd(@, d)]
\* Transform.translate / rotate.
Translate(t, d) == [t EXCEPT !.position = VAdd(@, d), !.matrixNeedsUpdate = TRUE]
Rotate(t, d) == OnRotationChange([t EXCEPT !.rotation = VAdd(@, d)])
\* setPosition / setRotation / setRotationFromQuaternion / setScale.
SetPosition(t, p) == [t EXCEPT !.position = p, !.matrixNeedsUpdate = TRUE]
SetRotation(t, r) == OnRotationChange([t EXCEPT !.rotation = r])
SetRotationFromQuaternion(t, q) ==
  OnRotationChange([t EXCEPT !.quaternion = q, !.rotation = SetFromQuaternion(q)])
SetScale(t, sc) == [t EXCEPT !.scale = sc, !.matrixNeedsUpdate = TRUE]
\* translateLocal / rotateOnAxis (about the x axis) / lookAt (q is the
\* rotation of the matrix that Matrix4.lookAt builds for the target).
TranslateLocal(t, d) ==
  [t EXCEPT !.position = VAdd(@, ApplyQuaternion(d, t.quaternion)),
            !.matrixNeedsUpdate = TRUE]
RotateOnAxis(t, angle) ==
  SetRotationFromQuaternion(t, PremultiplyX(t.quaternion, angle))
LookAt(t, q) == SetRotationFromQuaternion(t, q)
\* deserialize: data is a record whose fields are <<>> when absent.
Deserialize(t, data) ==
  [(IF data.rotation # <<>>
    THEN OnRotationChange([t EXCEPT !.rotation = data.rotation])
    ELSE t)
   EXCEPT !.position = IF data.position # <<>> THEN data.position ELSE @,
          !.scale = IF data.scale # <<>> THEN data.scale ELSE @,
          !.matrixNeedsUpdate = TRUE]

\* Transform.updateMatrix.
UpdateMatrix(t) ==
  [t EXCEPT !.localMatrix = Compose(t.position, t.quaternion, t.scale),
            !.matrixNeedsUpdate = FALSE]
\* get localMatrix: the Transform after the read; its localMatrix is returned.
GetLocalMatrix(t) == IF t.matrixNeedsUpdate THEN UpdateMatrix(t) ELSE t

(***************************************************************************)
(* RigidBody (physics/RigidBody.ts).                                       *)
(***************************************************************************)
BodyTypes == {"dynamic", "static", "kinematic"}
\* 9.81 and the default angularDrag 0.05.
Gravity == <<981, 100>>
DefaultAngularDrag == <<1, 20>>

\* The constructor: a static body gets mass 0 and no gravity.
NewRigidBody(type) ==
  [bodyType |-> type,
   mass |-> IF type = "static" THEN R0 ELSE R1,
   drag |-> R0,
   angularDrag |-> DefaultAngularDrag,
   useGravity |-> (type # "static"),
   isKinematic |-> FALSE,
   freezeRotation |-> FALSE,
   freezePosition |-> FALSE,
   enabled |-> TRUE,
   constraints |-> {},
   colliders |-> <<>>,
   velocity |-> Zero,
   angularVelocity |-> Zero,
   forces |-> Zero,
   torques |-> Zero]

\* addBoxCollider / addSphereCollider -> addCollider.  An undefined size is
\* <<>>, an undefined radius 0 (both are replaced by the default when read).
BoxCollider(size, isTrigger) ==
  [shape |-> "box", size |-> size, radius |-> R0, isTrigger |-> isTrigger,
   offset |-> Zero]
SphereCollider(radius, isTrigger) ==
  [shape |-> "sphere", size |-> <<>>, radius |-> radius, isTrigger |-> isTrigger,
   offset |-> Zero]
AddCollider(b, config) == [b EXCEPT !.colliders = Append(@, config)]

\* RigidBody.addForce.
AddForceB(b, force, mode) ==
  IF b.bodyType = "static" THEN b
  ELSE CASE mode = "force" -> [b EXCEPT !.forces = VAdd(@, force)]
         [] mode = "impulse" ->
              [b EXCEPT !.velocity = VAdd(@, VDivide(force, b.mass))]
         [] mode = "acceleration" ->
              [b EXCEPT !.forces = VAdd(@, VScale(force, b.mass))]
         [] OTHER -> b

\* RigidBody.addTorque.
AddTorqueUnguarded(b, torque, mode) ==
  CASE mode = "force" -> [b EXCEPT !.torques = VAdd(@, torque)]
    [] mode = "impulse" -> [b EXCEPT !.angularVelocity = VAdd(@, torque)]
    [] OTHER -> b
AddTorqueB(b, torque, mode) ==
  IF b.bodyType = "static" \/ b.freezeRotation THEN b
  ELSE CASE mode = "force" -> [b EXCEPT !.torques = VAdd(@, torque)]
         [] mode = "impulse" -> [b EXCEPT !.angularVelocity = VAdd(@, torque)]
         [] OTHER -> b

\* RigidBody.addForceAtPosition; t is the entity's Transform, hasTransform
\* whether it has one.
AddForceAtPositionSpinning(b, t, hasTransform, force, position, mode) ==
  IF b.bodyType = "static" THEN b
  ELSE IF ~hasTransform THEN b
  ELSE AddTorqueUnguarded(AddForceB(b, force, mode),
                          VCross(VSub(position, t.position), force), mode)
AddForceAtPositionB(b, t, hasTransform, force, position, mode) ==
  IF b.bodyType = "static" THEN b
  ELSE IF ~hasTransform THEN b
  ELSE LET relativePos == VSub(position, t.position)
           torque == VCross(relativePos, force)
       IN AddTorqueB(AddForceB(b, force, mode), torque, mode)

\* The constraints block: the frozen coordinates are set to 0.
Unless(frozen, x) == IF frozen THEN R0 ELSE x
ApplyConstraints(v, constraints, names) ==
  <<Unless(names[1] \in constraints, v[1]),
    Unless(names[2] \in constraints, v[2]),
    Unless(names[3] \in constraints, v[3])>>
PositionConstraints == <<"freezePositionX", "freezePositionY", "freezePositionZ">>
RotationConstraints == <<"freezeRotationX", "freezeRotationY", "freezeRotationZ">>

\* The end of RigidBody.fixedUpdate: the new velocities are stored, the
\* Transform is moved and turned by them, the forces and torques are cleared.
Integrate(b, t, fixedDeltaTime, velocity, angularVelocity) ==
  LET t1 == IF ~b.freezePosition
            THEN Translate(t, VScale(velocity, fixedDeltaTime))
            ELSE t
  IN [rb |-> [b EXCEPT !.velocity = velocity,
                       !.angularVelocity = angularVelocity,
                       !.forces = Zero,
                       !.torques = Zero],
      tf |-> IF ~b.freezeRotation
             THEN Rotate(t1, VScale(angularVelocity, fixedDeltaTime))
             ELSE t1]

\* RigidBody.fixedUpdate: the body and the Transform after the call.
BodyStep(b, t, hasTransform, fixedDeltaTime) ==
  IF b.bodyType = "static" \/ ~b.enabled THEN [rb |-> b, tf |-> t]
  ELSE IF ~hasTransform THEN [rb |-> b, tf |-> t]
  ELSE
    LET forces == IF b.useGravity
                  THEN VAdd(b.forces, <<R0, RMul(RNeg(Gravity), b.mass), R0>>)
                  ELSE b.forces
        acceleration == VDivide(forces, b.mass)
        v1 == VAdd(b.velocity, VScale(acceleration, fixedDeltaTime))
        v2 == VScale(v1, RSub(R1, RMul(b.drag, fixedDeltaTime)))
        w1 == VAdd(b.angularVelocity, VScale(b.torques, fixedDeltaTime))
        w2 == VScale(w1, RSub(R1, RMul(b.angularDrag, fixedDeltaTime)))
    IN Integrate(b, t, fixedDeltaTime,
                 ApplyConstraints(v2, b.constraints, PositionConstraints),
                 IF ~b.freezeRotation
                 THEN ApplyConstraints(w2, b.constraints, RotationConstraints)
                 ELSE b.angularVelocity)

(***************************************************************************)
(* PhysicsSystem (physics/PhysicsSystem.ts): collisions.                   *)
(***************************************************************************)
\* colliderA.radius || 0.5 and colliderA.size || new THREE.Vector3(1, 1, 1).
RadiusOf(collider) == IF collider.radius = R0 THEN Half ELSE collider.radius
SizeOf(collider) == IF collider.size = <<>> THEN Ones ELSE collider.size

NoCollision == [hit |-> FALSE, point |-> Zero, normal |-> Zero, depth |-> R0]

\* Sphere against sphere, the distance and the normal computed.
SphereSphereHit(posA, radiusA, distance, minDistance, normal) ==
  IF RLt(distance, minDistance)
  THEN [hit |-> TRUE,
        point |-> VAdd(posA, VScale(normal, radiusA)),
        normal |-> normal,
        depth |-> RSub(minDistance, distance)]
  ELSE NoCollision
\* Sphere against sphere with the radius of A taken for both.
SphereSphereOwnRadius(posA, colliderA, posB, colliderB) ==
  SphereSphereHit(posA, RadiusOf(colliderA), VDistance(posA, posB),
                  RAdd(RadiusOf(colliderA), RadiusOf(colliderA)),
                  VNormalize(VSub(posB, posA)))
SphereSphere(posA, colliderA, posB, colliderB) ==
  SphereSphereHit(posA, RadiusOf(colliderA), VDistance(posA, posB),
                  RAdd(RadiusOf(colliderA), RadiusOf(colliderB)),
                  VNormalize(VSub(posB, posA)))

\* The sign of a box-box normal: posA.x < posB.x ? -1 : 1.
AxisSign(a, b) == IF RLt(a, b) THEN RNeg(R1) ELSE R1

\* Box against box without the comparison of the y and z overlaps.
BoxBoxHitXOrY(posA, posB, overlap, point) ==
  IF RLt(overlap[1], overlap[2]) /\ RLt(overlap[1], overlap[3])
  THEN [hit |-> TRUE, point |-> point,
        normal |-> <<AxisSign(posA[1], posB[1]), R0, R0>>,
        depth |-> overlap[1]]
  ELSE [hit |-> TRUE, point |-> point,
        normal |-> <<R0, AxisSign(posA[2], posB[2]), R0>>,
        depth |-> overlap[2]]
\* Box against box, the boxes overlapping: the axis of least overlap.
BoxBoxHit(posA, posB, overlap, point) ==
  IF RLt(overlap[1], overlap[2]) /\ RLt(overlap[1], overlap[3])
  THEN [hit |-> TRUE, point |-> point,
        normal |-> <<AxisSign(posA[1], posB[1]), R0, R0>>,
        depth |-> overlap[1]]
  ELSE IF RLt(overlap[2], overlap[3])
  THEN [hit |-> TRUE, point |-> point,
        normal |-> <<R0, AxisSign(posA[2], posB[2]), R0>>,
        depth |-> overlap[2]]
  ELSE [hit |-> TRUE, point |-> point,
        normal |-> <<R0, R0, AxisSign(posA[3], posB[3])>>,
        depth |-> overlap[3]]
\* Box against box, the corners computed.
BoxBoxCorners(posA, posB, minA, maxA, minB, maxB) ==
  IF \A i \in Axes : RLe(minA[i], maxB[i]) /\ RLe(minB[i], maxA[i])
  THEN BoxBoxHit(posA, posB,
                 <<RMin(RSub(maxA[1], minB[1]), RSub(maxB[1], minA[1])),
                   RMin(RSub(maxA[2], minB[2]), RSub(maxB[2], minA[2])),
                   RMin(RSub(maxA[3], minB[3]), RSub(maxB[3], minA[3]))>>,
                 VScale(VAdd(posA, posB), Half))
  ELSE NoCollision
BoxBox(posA, colliderA, posB, colliderB) ==
  LET halfA == VScale(SizeOf(colliderA), Half)
      halfB == VScale(SizeOf(colliderB), Half)
  IN BoxBoxCorners(posA, posB, VSub(posA, halfA), VAdd(posA, halfA),
                   VSub(posB, halfB), VAdd(posB, halfB))

\* Sphere against box, the closest point of the box and its distance computed.
SphereBoxHit(spherePos, radius, closest, distance) ==
  IF RLt(distance, radius)
  THEN [hit |-> TRUE,
        point |-> closest,
        normal |-> VNormalize(VSub(spherePos, closest)),
        depth |-> RSub(radius, distance)]
  ELSE NoCollision
SphereBoxClosest(spherePos, radius, closest) ==
  SphereBoxHit(spherePos, radius, closest, VDistance(spherePos, closest))
\* Math.max(min, Math.min(x, max)) on one axis of the box.
Clamp(x, centre, half) == RMax(RSub(centre, half), RMin(x, RAdd(centre, half)))
SphereBoxHalf(spherePos, radius, boxPos, half) ==
  SphereBoxClosest(spherePos, radius,
                   <<Clamp(spherePos[1], boxPos[1], half[1]),
                     Clamp(spherePos[2], boxPos[2], half[2]),
                     Clamp(spherePos[3], boxPos[3], half[3])>>)
SphereBox(spherePos, sphereCollider, boxPos, boxCollider) ==
  SphereBoxHalf(spherePos, RadiusOf(sphereCollider), boxPos,
                VScale(SizeOf(boxCollider), Half))

\* PhysicsSystem.checkCollision: NoCollision stands for null.
CheckShapes(posA, colliderA, posB, colliderB) ==
  CASE colliderA.shape = "sphere" /\ colliderB.shape = "sphere" ->
         SphereSphere(posA, colliderA, posB, colliderB)
    [] colliderA.shape = "box" /\ colliderB.shape = "box" ->
         BoxBox(posA, colliderA, posB, colliderB)
    [] colliderA.shape = "sphere" /\ colliderB.shape = "box" ->
         SphereBox(posA, colliderA, posB, colliderB)
    [] colliderA.shape = "box" /\ colliderB.shape = "sphere" ->
         SphereBox(posB, colliderB, posA, colliderA)
    [] OTHER -> NoCollision
CheckCollision(transformA, colliderA, transformB, colliderB) ==
  CheckShapes(VAdd(transformA.position, colliderA.offset), colliderA,
              VAdd(transformB.position, colliderB.offset), colliderB)

\* rigidBody.colliders.some(c => c.isTrigger)
NeverTrigger(colliders) == FALSE
AnyTrigger(colliders) == \E i \in 1 .. Len(colliders) : colliders[i].isTrigger

\* const restitution = 0.3
Restitution == <<3, 10>>

\* resolveCollision, positional correction: each body that is not static is
\* moved along the separation by its ratio.
Separate(st, entityA, entityB, separation, ratioA, ratioB) ==
  [st EXCEPT
     !.tf[entityA] = IF st.rb[entityA].bodyType # "static"
                     THEN Translate(@, VScale(separation, RNeg(ratioA)))
                     ELSE @,
     !.tf[entityB] = IF st.rb[entityB].bodyType # "static"
                     THEN Translate(@, VScale(separation, ratioB))
                     ELSE @]

\* resolveCollision, velocity response: the impulse is applied to each body
\* that is not static.
ApplyImpulse(st, entityA, entityB, impulse) ==
  [st EXCEPT
     !.rb[entityA].velocity =
        IF st.rb[entityA].bodyType # "static"
        THEN VAdd(@, VScale(impulse, RDiv(R1, st.rb[entityA].mass)))
        ELSE @,
     !.rb[entityB].velocity =
        IF st.rb[entityB].bodyType # "static"
        THEN VSub(@, VScale(impulse, RDiv(R1, st.rb[entityB].mass)))
        ELSE @]

\* resolveCollision after the positional correction: nothing more when the
\* bodies are separating, else the impulse of magnitude j along the normal.
Respond(separated, entityA, entityB, collision, totalMass, velocityAlongNormal) ==
  IF RLt(R0, velocityAlongNormal) THEN separated
  ELSE ApplyImpulse(separated, entityA, entityB,
         VScale(collision.normal,
                RDiv(RMul(RNeg(RAdd(R1, Restitution)), velocityAlongNormal),
                     totalMass)))

\* PhysicsSystem.resolveCollision.  The physics state st holds the bodies
\* (st.rb) and the Transforms (st.tf) by entity.
ResolveCollision(st, entityA, entityB, collision) ==
  LET rigidBodyA == st.rb[entityA]
      rigidBodyB == st.rb[entityB]
      isAStatic == rigidBodyA.bodyType = "static"
      isBStatic == rigidBodyB.bodyType = "static"
      totalMass == RAdd(IF isAStatic THEN R0 ELSE rigidBodyA.mass,
                        IF isBStatic THEN R0 ELSE rigidBodyB.mass)
      ratioA == IF isBStatic THEN R1
                ELSE IF isAStatic THEN R0 ELSE RDiv(rigidBodyB.mass, totalMass)
      ratioB == IF isAStatic THEN R1
                ELSE IF isBStatic THEN R0 ELSE RDiv(rigidBodyA.mass, totalMass)
  IN IF ~(/\ HasComponent(entityA, "Transform") /\ HasComponent(entityB, "Transform")
          /\ HasComponent(entityA, "RigidBody") /\ HasComponent(entityB, "RigidBody"))
     THEN st
     ELSE IF AnyTrigger(rigidBodyA.colliders) \/ AnyTrigger(rigidBodyB.colliders)
     THEN st
     ELSE IF isAStatic /\ isBStatic THEN st
     ELSE Respond(Separate(st, entityA, entityB,
                           VScale(collision.normal, collision.depth),
                           ratioA, ratioB),
                  entityA, entityB, collision, totalMass,
                  VDot(VSub(rigidBodyA.velocity, rigidBodyB.velocity),
                       collision.normal))

\* The record of one colliding pair: the collision passed to the callbacks,
\* the two bodies just before and just after resolveCollision, and the
\* callbacks invoked with it, in order.
PairRecord(before, after, entityA, entityB, collision, callbacks) ==
  [entityA |-> entityA, entityB |-> entityB,
   point |-> collision.point, normal |-> collision.normal,
   depth |-> collision.depth,
   posA |-> before.tf[entityA].position, posB |-> before.tf[entityB].position,
   velA |-> before.rb[entityA].velocity, velB |-> before.rb[entityB].velocity,
   posA2 |-> after.tf[entityA].position, posB2 |-> after.tf[entityB].position,
   velA2 |-> after.rb[entityA].velocity, velB2 |-> after.rb[entityB].velocity,
   notified |-> callbacks]

\* The pair (A, B) found colliding: the callbacks are notified and the
\* collision resolved.
Collided(st, resolved, entityA, entityB, collision, callbacks) ==
  [resolved EXCEPT !.log =
     Append(@, PairRecord(st, resolved, entityA, entityB, collision, callbacks))]
Checked(st, entityA, entityB, collision, callbacks) ==
  IF collision.hit
  THEN Collided(st, ResolveCollision(st, entityA, entityB, collision),
                entityA, entityB, collision, callbacks)
  ELSE st

\* The body of the inner loop of detectCollisions for the pair (A, B).
DetectPair(st, entityA, entityB, callbacks) ==
  IF ~(/\ HasComponent(entityA, "Transform") /\ HasComponent(entityB, "Transform")
       /\ HasComponent(entityA, "RigidBody") /\ HasComponent(entityB, "RigidBody"))
  THEN st
  ELSE IF st.rb[entityA].colliders = <<>> \/ st.rb[entityB].colliders = <<>>
  THEN st
  ELSE Checked(st, entityA, entityB,
               CheckCollision(st.tf[entityA], st.rb[entityA].colliders[1],
                              st.tf[entityB], st.rb[entityB].colliders[1]),
               callbacks)

\* PhysicsSystem.detectCollisions: the loops over i and j > i.
RECURSIVE DetectFrom(_, _, _, _, _)
DetectFrom(st, list, i, j, callbacks) ==
  IF i > Len(list) THEN st
  ELSE IF j > Len(list) THEN DetectFrom(st, list, i + 1, i + 2, callbacks)
  ELSE DetectFrom(DetectPair(st, list[i], list[j], callbacks),
                  list, i, j + 1, callbacks)
DetectCollisions(st, list, callbacks) == DetectFrom(st, list, 1, 2, callbacks)

\* The first loop of PhysicsSystem.fixedUpdate: rigidBody.fixedUpdate on each.
Stepped(st, e, r) == [st EXCEPT !.rb[e] = r.rb, !.tf[e] = r.tf]
RECURSIVE StepBodies(_, _, _)
StepBodies(st, list, fixedDeltaTime) ==
  IF list = <<>> THEN st
  ELSE StepBodies(Stepped(st, Head(list),
                          BodyStep(st.rb[Head(list)], st.tf[Head(list)],
                                   HasComponent(Head(list), "Transform"),
                                   fixedDeltaTime)),
                  Tail(list), fixedDeltaTime)

\* World.getEntitiesWithComponents(RigidBody, Transform) (World.ts 72-76).
GetEntitiesWithComponents(types) ==
  Filter(GetEntities, {e \in Ent : \A t \in types : HasComponent(e, t)})

\* PhysicsSystem.fixedUpdate.  st.pre is the state between the two halves
\* and st.log the pairs found colliding.
Between(moved) ==
  [moved EXCEPT !.log = <<>>, !.pre = [rb |-> moved.rb, tf |-> moved.tf]]
FixedStepOn(st, list, fixedDeltaTime, callbacks) ==
  DetectCollisions(Between(StepBodies(st, list, fixedDeltaTime)), list, callbacks)
FixedStep(st, fixedDeltaTime, callbacks) ==
  FixedStepOn(st, GetEntitiesWithComponents({"RigidBody", "Transform"}),
              fixedDeltaTime, callbacks)

\* n passes of fixedUpdate, as the loop of PhysicsSystem.update runs them.
RECURSIVE FixedSteps(_, _, _, _)
FixedSteps(st, n, fixedDeltaTime, callbacks) ==
  IF n = 0 THEN st
  ELSE FixedSteps(FixedStep(st, fixedDeltaTime, callbacks), n - 1,
                  fixedDeltaTime, callbacks)

PhysState ==
  [rb |-> rigidBody, tf |-> transform, log |-> collisionLog, pre |-> preCollision]

SetPhysState(st) ==
  /\ rigidBody' = st.rb
  /\ transform' = st.tf
  /\ collisionLog' = st.log
  /\ preCollision' = st.pre

\* The accumulator counts in quanta of 1 / QuantaPerSecond seconds.
QuantaPerSecond == 240
Seconds(quanta) == Norm(quanta, QuantaPerSecond)

(***************************************************************************)
(* Calls on the bodies of a scene.                                         *)
(***************************************************************************)
\* Calls made on a scene; callbacks registered.
MaxOps == 2
MaxCallbacks == 2

HasBody(e) == e \in Range(entities) /\ HasComponent(e, "RigidBody")

AddForce(e, force, mode) ==
  /\ HasBody(e)
  /\ physOps < MaxOps
  /\ physOps' = physOps + 1
  /\ rigidBody' = [rigidBody EXCEPT ![e] = AddForceB(@, force, mode)]
  /\ last' = Note(<<"addForce", e, Null, 0, mode>>)
  /\ UNCHANGED <<transform, collisionCallbacks, collisionLog, preCollision>>
  /\ UNCHANGED <<trace, extVars, edVars, idxVars, ecsVars, sysVars, accVars>>

AddTorque(e, torque, mode) ==
  /\ HasBody(e)
  /\ physOps < MaxOps
  /\ physOps' = physOps + 1
  /\ rigidBody' = [rigidBody EXCEPT ![e] = AddTorqueB(@, torque, mode)]
  /\ last' = Note(<<"addTorque", e, Null, 0, mode>>)
  /\ UNCHANGED <<transform, collisionCallbacks, collisionLog, preCollision>>
  /\ UNCHANGED <<trace, extVars, edVars, idxVars, ecsVars, sysVars, accVars>>

AddForceAtPosition(e, force, position, mode) ==
  /\ HasBody(e)
  /\ physOps < MaxOps
  /\ physOps' = physOps + 1
  /\ rigidBody' = [rigidBody EXCEPT ![e] =
       AddForceAtPositionB(@, transform[e], HasComponent(e, "Transform"),
                           force, position, mode)]
  /\ last' = Note(<<"addForceAtPosition", e, Null, 0, mode>>)
  /\ UNCHANGED <<transform, collisionCallbacks, collisionLog, preCollision>>
  /\ UNCHANGED <<trace, extVars, edVars, idxVars, ecsVars, sysVars, accVars>>

\* RigidBody.fixedUpdate called on one body.
RigidBodyFixedUpdate(e, fixedDeltaTime) ==
  /\ HasBody(e)
  /\ physOps < MaxOps
  /\ physOps' = physOps + 1
  /\ \E r \in {BodyStep(rigidBody[e], transform[e], HasComponent(e, "Transform"),
                         fixedDeltaTime)} :
       /\ rigidBody' = [rigidBody EXCEPT ![e] = r.rb]
       /\ transform' = [transform EXCEPT ![e] = r.tf]
  /\ last' = Note(<<"rigidBodyFixedUpdate", e, Null, 0, "">>)
  /\ UNCHANGED <<collisionCallbacks, collisionLog, preCollision>>
  /\ UNCHANGED <<trace, extVars, edVars, idxVars, ecsVars, sysVars, accVars>>

\* PhysicsSystem.fixedUpdate called once.
PhysicsFixedUpdate(fixedDeltaTime) ==
  /\ physOps < MaxOps
  /\ physOps' = physOps + 1
  /\ SetPhysState(FixedStep(PhysState, fixedDeltaTime, collisionCallbacks))
  /\ last' = Note(<<"physicsFixedUpdate", Null, Null, 0, "">>)
  /\ UNCHANGED collisionCallbacks
  /\ UNCHANGED <<trace, extVars, edVars, idxVars, ecsVars, sysVars, accVars>>

\* PhysicsSystem.onCollision with a new function; callbacks are numbered in
\* the order of their registration.
OnCollision ==
  /\ Len(collisionCallbacks) < MaxCallbacks
  /\ collisionCallbacks' = Append(collisionCallbacks, Len(collisionCallbacks) + 1)
  /\ last' = Note(<<"onCollision", Len(collisionCallbacks) + 1, Null, 0, "">>)
  /\ UNCHANGED <<rigidBody, transform, collisionLog, preCollision, physOps>>
  /\ UNCHANGED <<trace, extVars, edVars, idxVars, ecsVars, sysVars, accVars>>

(***************************************************************************)
(* SystemManager (ecs/System.ts).                                          *)
(***************************************************************************)
\* Number of System objects.
NumSystems == 5
Systems == 1 .. NumSystems

\* The classes of the system objects: constructor.name.  Two objects may be
\* of one class.
ClassNames == <<"CustomA", "CustomB", "PhysicsSystem", "RenderSystem">>
SysClass(s) == ClassNames[((s - 1) % Len(ClassNames)) + 1]

\* System.priority: 0 unless the class sets it.
PhysicsPriority == 100
RenderPriority == 1000
BasePriority == 0
Priority(s) ==
  CASE SysClass(s) = "PhysicsSystem" -> PhysicsPriority
    [] SysClass(s) = "RenderSystem" -> RenderPriority
    [] OTHER -> BasePriority

\* Array.prototype.sort with (a, b) => a.priority - b.priority: a stable sort.
RECURSIVE InsertSorted(_, _)
InsertSorted(sorted, x) ==
  IF sorted = <<>> THEN <<x>>
  ELSE IF Priority(x) < Priority(Head(sorted))
       THEN <<x>> \o sorted
       ELSE <<Head(sorted)>> \o InsertSorted(Tail(sorted), x)
RECURSIVE SortFrom(_, _)
SortFrom(sorted, rest) ==
  IF rest = <<>> THEN sorted
  ELSE SortFrom(InsertSorted(sorted, Head(rest)), Tail(rest))
Unsorted(list) == list
SortByPriority(list) == SortFrom(<<>>, list)

\* SystemManager.addSystem (System.ts 40-56); the result is the system returned.
AddSystem(s) ==
  /\ s \in Systems
  /\ IF systemsByType[SysClass(s)] # 0
     THEN /\ UNCHANGED <<systems, systemsByType, inserted>>
          /\ callLog' = <<>>
          /\ last' = Note(<<"addSystem", s, Null, systemsByType[SysClass(s)], "">>)
     ELSE /\ systems' = SortByPriority(Append(systems, s))
          /\ systemsByType' = [systemsByType EXCEPT ![SysClass(s)] = s]
          /\ inserted' = Append(inserted, s)
          /\ callLog' = <<(<<"onStart", s, "manager">>)>>
          /\ last' = Note(<<"addSystem", s, Null, s, "">>)
  /\ UNCHANGED <<sysEnabled, trace, extVars, edVars, idxVars, ecsVars, accVars, physVars>>

\* SystemManager.removeSystem (System.ts 58-69); the result is 1 for true.
RemoveSystem(class) ==
  /\ LET system == systemsByType[class] IN
       IF system # 0
       THEN /\ callLog' = <<(<<"onStop", system, "manager">>)>>
            /\ systems' = Filter(systems, Systems \ {system})
            /\ systemsByType' = [systemsByType EXCEPT ![class] = 0]
            /\ inserted' = Filter(inserted, Systems \ {system})
            /\ last' = Note(<<"removeSystem", system, Null, 1, class>>)
       ELSE /\ UNCHANGED <<systems, systemsByType, inserted>>
            /\ callLog' = <<>>
            /\ last' = Note(<<"removeSystem", Null, Null, 0, class>>)
  /\ UNCHANGED <<sysEnabled, trace, extVars, edVars, idxVars, ecsVars, accVars, physVars>>

\* Assignment to the public field System.enabled (System.ts 7).
SetEnabled(s, b) ==
  /\ s \in Systems
  /\ sysEnabled' = [sysEnabled EXCEPT ![s] = b]
  /\ callLog' = <<>>
  /\ last' = Note(<<"setEnabled", s, Null, 0, "">>)
  /\ UNCHANGED <<systems, systemsByType, inserted, trace, extVars, edVars, idxVars, ecsVars, accVars, physVars>>

(***************************************************************************)
(* PhysicsSystem.update: the fixed-step accumulator (PhysicsSystem.ts      *)
(* 33-40).  The loop state is <<accumulator, passes run, rounded>>.        *)
(***************************************************************************)
\* while (this.accumulator >= this.fixedTimeStep)
LoopGuardStrict(acc, step) == acc > step
LoopGuard(acc, step) == acc >= step

RECURSIVE CatchUp(_, _)
CatchUp(st, step) ==
  IF LoopGuard(st[1], step)
  THEN CatchUp(<<Fl(st[1] - step), st[2] + 1,
                 st[3] \/ ~Representable(st[1] - step)>>, step)
  ELSE st

\* this.accumulator += deltaTime, then the loop.
Accumulate(acc, dt, step) ==
  CatchUp(<<Fl(acc + dt), 0, ~Representable(acc + dt)>>, step)

\* The delta each pass is called with: this.fixedTimeStep.
PassDelta(dt, step) == step

\* The phase calls made by PhysicsSystem.update: n times its own fixedUpdate.
RECURSIVE SelfCalls(_, _)
SelfCalls(s, n) ==
  IF n = 0 THEN <<>> ELSE <<(<<"fixedUpdate", s, "self">>)>> \o SelfCalls(s, n - 1)

\* The loops of SystemManager.update / fixedUpdate / lateUpdate (System.ts
\* 75-97) over the list: the calls made, in order.
RECURSIVE PhaseCalls(_, _, _)
PhaseCalls(list, phase, n) ==
  IF list = <<>> THEN <<>>
  ELSE LET s == Head(list) IN
       (IF sysEnabled[s]
        THEN <<(<<phase, s, "manager">>)>> \o
             (IF phase = "update" /\ SysClass(s) = "PhysicsSystem"
              THEN SelfCalls(s, n) ELSE <<>>)
        ELSE <<>>) \o PhaseCalls(Tail(list), phase, n)

\* Whether a tick of this phase reaches PhysicsSystem.update.
PhysicsUpdated ==
  \E i \in 1 .. Len(systems) :
    SysClass(systems[i]) = "PhysicsSystem" /\ sysEnabled[systems[i]]

\* PhysicsSystem.update(dt): the accumulator and the passes it runs.
PhysicsUpdateFields(dt) ==
  \E st \in {Accumulate(accumulator, dt, fixedTimeStep)} :
    /\ accumulator' = st[1]
    /\ passes' = passes + st[2]
    /\ simulated' = simulated + st[2] * PassDelta(dt, fixedTimeStep)
    /\ inexact' = (inexact \/ st[3])
    /\ elapsed' = elapsed + dt
    /\ SetPhysState(FixedSteps(PhysState, st[2],
                               Seconds(PassDelta(dt, fixedTimeStep)),
                               collisionCallbacks))
    /\ UNCHANGED <<fixedTimeStep, collisionCallbacks, physOps>>

\* The deltas a frame may pass.
Deltas == {d \in 0 .. MaxDelta : Representable(d)}

\* World.update (World.ts 110-112) -> SystemManager.update: what Engine.loop
\* calls once per frame (Engine.ts 115).
WorldUpdate(dt) ==
  /\ dt \in Deltas
  /\ elapsed + dt <= MaxElapsed
  /\ IF PhysicsUpdated
     THEN /\ PhysicsUpdateFields(dt)
          /\ callLog' = PhaseCalls(systems, "update",
                                   Accumulate(accumulator, dt, fixedTimeStep)[2])
     ELSE /\ UNCHANGED <<accVars, physVars>>
          /\ callLog' = PhaseCalls(systems, "update", 0)
  /\ last' = Note(<<"update", dt, Null, 0, "">>)
  /\ UNCHANGED <<systems, systemsByType, sysEnabled, inserted, trace, extVars, edVars, idxVars, ecsVars>>

\* World.fixedUpdate (World.ts 114-116) -> SystemManager.fixedUpdate.
WorldFixedUpdate(fixedDeltaTime) ==
  /\ callLog' = PhaseCalls(systems, "fixedUpdate", 0)
  /\ IF PhysicsUpdated
     THEN SetPhysState(FixedStep(PhysState, Seconds(fixedDeltaTime),
                                 collisionCallbacks))
     ELSE UNCHANGED <<rigidBody, transform, collisionLog, preCollision>>
  /\ last' = Note(<<"fixedUpdate", fixedDeltaTime, Null, 0, "">>)
  /\ UNCHANGED <<systems, systemsByType, sysEnabled, inserted, trace, extVars, edVars, idxVars, ecsVars,
                 accVars, collisionCallbacks, physOps>>

\* World.lateUpdate (World.ts 118-120) -> SystemManager.lateUpdate.
WorldLateUpdate ==
  /\ callLog' = PhaseCalls(systems, "lateUpdate", 0)
  /\ last' = Note(<<"lateUpdate", Null, Null, 0, "">>)
  /\ UNCHANGED <<systems, systemsByType, sysEnabled, inserted, trace, extVars, edVars, idxVars, ecsVars,
                 accVars, physVars>>

\* PhysicsSystem.update(dt) called on a system that is in no manager.
PhysicsUpdate(dt) ==
  /\ dt \in Deltas
  /\ elapsed + dt <= MaxElapsed
  /\ PhysicsUpdateFields(dt)
  /\ last' = Note(<<"physicsUpdate", dt, Null, 0, "">>)
  /\ UNCHANGED <<trace, extVars, edVars, idxVars, ecsVars, sysVars>>

\* 1/60 s, in units of 1/240 s.
DefaultFixedTimeStep == 4

InitSys ==
  /\ systems = <<>>
  /\ systemsByType = [c \in Range(ClassNames) |-> 0]
  /\ sysEnabled = [s \in Systems |-> TRUE]
  /\ inserted = <<>>
  /\ callLog = <<>>

InitAcc(steps) ==
  /\ accumulator = 0
  /\ fixedTimeStep \in steps
  /\ elapsed = 0
  /\ passes = 0
  /\ simulated = 0
  /\ inexact = FALSE

\* No entity has a RigidBody: the records are those of the constructors.
InitPhys ==
  /\ collisionCallbacks = <<>>
  /\ rigidBody = [e \in Ent |-> NewRigidBody("dynamic")]
  /\ transform = [e \in Ent |-> NewTransform]
  /\ collisionLog = <<>>
  /\ preCollision = [rb |-> [e \in Ent |-> NewRigidBody("dynamic")],
                     tf |-> [e \in Ent |-> NewTransform]]
  /\ physOps = 0

InitRest == InitSys /\ InitAcc({DefaultFixedTimeStep}) /\ InitPhys

(***************************************************************************)
(* SpecTree: the entity hierarchy under addChild, removeChild and destroy. *)
(***************************************************************************)
InitTree == InitEcs /\ InitRest /\ InitLast({"addChild", "removeChild", "destroy"})
NextTree ==
  \/ NewEntity
  \/ \E p \in Ent, c \in Ent : AddChild(p, c)
  \/ \E p \in Ent, c \in Ent : RemoveChild(p, c)
  \/ \E e \in Ent : Destroy(e)
SpecTree == InitTree /\ [][NextTree]_vars

\* C1: for all entities c and p, c.parent is p exactly when c occurs in
\* p.children, and then c occurs there exactly once.
C1_ParentChildrenConsistent ==
  \A c \in Constructed : \A p \in Constructed :
    /\ (parent[c] = p) <=> (c \in Range(children[p]))
    /\ Count(children[p], c) <= 1

\* C1 witness: after a destroy, a child was added to the parent it already
\* had (last[4] is the parent it had before the call) and is listed once.
C1_Witness ==
  /\ last[1] = "addChild"
  /\ last[4] = last[2]
  /\ parent[last[3]] = last[2]
  /\ Len(children[last[2]]) = 2
  /\ \E e \in Constructed : ~active[e]

(***************************************************************************)
(* SpecWorld: the World registry over the entity hierarchy.                *)
(***************************************************************************)
InitWorld == InitEcs /\ InitRest /\ InitLast({})
NextWorld ==
  \/ NewEntity
  \/ CreateEntity
  \/ \E e \in Ent : AddEntity(e)
  \/ \E e \in Ent : RemoveEntity(e)
  \/ \E p \in Ent, c \in Ent : AddChild(p, c)
  \/ \E p \in Ent, c \in Ent : RemoveChild(p, c)
SpecWorld == InitWorld /\ [][NextWorld]_vars

\* C2: getRootEntities() returns exactly the active entities registered in
\* the World whose parent is null, each exactly once.
C2_RootsAreParentless ==
  /\ Range(GetRootEntities) =
       {e \in Range(entities) : active[e] /\ parent[e] = Null}
  /\ \A e \in Ent : Count(GetRootEntities, e) <= 1

(***************************************************************************)
(* SpecComp: the component container of entities.                          *)
(***************************************************************************)
InitComp == InitEcs /\ InitRest /\ InitLast({"addComponent", "removeComponent"})
NextComp ==
  \/ NewEntity
  \/ \E e \in Ent, t \in CompTypes : AddComponent(e, t)
  \/ \E e \in Ent, t \in CompTypes : RemoveComponent(e, t)
SpecComp == InitComp /\ [][NextComp]_vars

(***************************************************************************)
(* SpecDestroy: entities with components and hierarchy, under destroy().   *)
(***************************************************************************)
InitDestroy == InitEcs /\ InitRest /\ InitLast({"destroy"})
NextDestroy ==
  \/ NewEntity
  \/ \E p \in Ent, c \in Ent : AddChild(p, c)
  \/ \E e \in Ent : Destroy(e)
  \/ \E e \in Ent, t \in CompTypes : AddComponentUpTo(e, t, DestroyInst)
SpecDestroy == InitDestroy /\ [][NextDestroy]_vars

\* Number of entries of type t in a component Map.
TypeCount(comps, t) == Cardinality({i \in 1 .. Len(comps) : comps[i][1] = t})

\* C3: an entity holds at most one component per type; addComponent on an
\* entity without the type attaches one new instance and calls its onAttach
\* once; addComponent on an entity that has the type returns the attached
\* instance, leaves the Map unchanged and calls no onAttach.
C3_AddComponentStep ==
  LET e == last'[2]
      t == last'[5]
      ret == last'[4]
  IN /\ \A x \in Ent : \A u \in CompTypes : TypeCount(components'[x], u) <= 1
     /\ (last'[1] = "addComponent" /\ ~HasComponent(e, t)) =>
          /\ ret = nextInst'
          /\ onAttachCalls[ret] = 0
          /\ components' = [components EXCEPT ![e] = Append(@, <<t, ret>>)]
          /\ onAttachCalls' = [onAttachCalls EXCEPT ![ret] = 1]
     /\ (last'[1] = "addComponent" /\ HasComponent(e, t)) =>
          /\ ret = GetComponent(e, t)
          /\ components' = components
          /\ onAttachCalls' = onAttachCalls
C3_AddComponent == [][C3_AddComponentStep]_vars

\* C3 witness: addComponent was called for a type the entity already held and
\* returned the first instance, after a second one had been constructed.
C3_Witness ==
  /\ last[1] = "addComponent"
  /\ last[4] = 1
  /\ nextInst = 2
  /\ components[last[2]] = <<(<<last[5], 1>>)>>
  /\ onAttachCalls = [i \in Inst |-> IF i = 1 THEN 1 ELSE 0]

\* The entities below e: its children, their children, and so on.
RECURSIVE DescendantsUpTo(_, _, _)
DescendantsUpTo(ch, e, n) ==
  IF n = 0 THEN {}
  ELSE Range(ch[e]) \cup UNION {DescendantsUpTo(ch, c, n - 1) : c \in Range(ch[e])}
Descendants(ch, e) == DescendantsUpTo(ch, e, NumEntities)

\* Positions of entity x's calls in the onDetach log.
LogPositions(log, x) == {i \in 1 .. Len(log) : log[i][1] = x}

\* C4: when e.destroy() returns, e and every former descendant are inactive
\* and hold no components, each component they held received onDetach exactly
\* once, e has left its former parent's children list and has no parent, and
\* every descendant's components were detached before any of its ancestor's.
C4_DestroyStep ==
  LET e == last'[2]
      below == Descendants(children, e)
      all == below \cup {e}
      held == {<<d, c[2]>> : <<d, c>> \in
                 UNION {{d} \X Range(components[d]) : d \in all}}
  IN (last'[1] = "destroy" /\ last'[4] = 0) =>
       /\ \A d \in all : ~active'[d] /\ components'[d] = <<>>
       /\ \A d \in all : parent'[d] = Null
       /\ Range(detachLog') = held
       /\ Len(detachLog') = Cardinality(held)
       /\ \A h \in held : onDetachCalls'[h[2]] = onDetachCalls[h[2]] + 1
       /\ parent[e] # Null => e \notin Range(children'[parent[e]])
       /\ \A a \in all : \A d \in Descendants(children, a) :
            \A i \in LogPositions(detachLog', d) :
              \A j \in LogPositions(detachLog', a) : i < j
C4_Destroy == [][C4_DestroyStep]_vars

\* C4 witness: destroy() returned for an entity that held a component and had
\* descendants, one of which held a component too and was detached first.
C4_Witness ==
  /\ last[1] = "destroy" /\ last[4] = 0
  /\ Len(detachLog) = 2
  /\ detachLog[2][1] = last[2]
  /\ detachLog[1][1] # last[2]
  /\ \A e \in Ent : ~active[e] /\ parent[e] = Null /\ children[e] = <<>>
  /\ onDetachCalls = [i \in Inst |-> IF i <= 2 THEN 1 ELSE 0]

(***************************************************************************)
(* SpecSys: the SystemManager of a World and its ticks.                    *)
(***************************************************************************)
Phases == {"update", "fixedUpdate", "lateUpdate"}
InitSystems == InitEcs /\ InitRest /\ InitLast(Phases)
NextSys ==
  \/ \E s \in Systems : AddSystem(s)
  \/ \E c \in Range(ClassNames) : RemoveSystem(c)
  \/ \E s \in Systems, b \in BOOLEAN : SetEnabled(s, b)
  \/ \E dt \in {0, DefaultFixedTimeStep, 2 * DefaultFixedTimeStep} : WorldUpdate(dt)
  \/ WorldFixedUpdate(DefaultFixedTimeStep)
  \/ WorldLateUpdate
SpecSys == InitSystems /\ [][NextSys]_vars

\* Position of system s in a list (0 when absent).
PosIn(list, s) == IndexOf(list, s)

\* The calls the manager made itself, without those a system made to itself.
ManagerCalls(log) ==
  LET keep == {c \in Range(log) : c[3] = "manager"} IN
  [i \in 1 .. Len(Filter(log, keep)) |-> <<Filter(log, keep)[i][1], Filter(log, keep)[i][2]>>]

\* The enabled systems of the list, in its order, each with the phase.
EnabledInOrder(phase) ==
  LET en == Filter(systems, {s \in Systems : sysEnabled[s]}) IN
  [i \in 1 .. Len(en) |-> <<phase, en[i]>>]

\* C5: the system list is in ascending priority order, systems of equal
\* priority in insertion order, and holds at most one system per class name;
\* a tick of a phase calls that phase on exactly the enabled systems, once
\* each, in list order.
C5_SortedAndTicked ==
  /\ \A i \in 1 .. Len(systems) : \A j \in (i + 1) .. Len(systems) :
       \/ Priority(systems[i]) < Priority(systems[j])
       \/ /\ Priority(systems[i]) = Priority(systems[j])
          /\ PosIn(inserted, systems[i]) < PosIn(inserted, systems[j])
  /\ \A i \in 1 .. Len(systems) : \A j \in 1 .. Len(systems) :
       SysClass(systems[i]) = SysClass(systems[j]) => i = j
  /\ Range(systems) = Range(inserted)
  /\ last[1] \in Phases => ManagerCalls(callLog) = EnabledInOrder(last[1])

\* C5 witness: a tick ran over a list of four systems, one of them disabled,
\* in which CustomB (inserted first) precedes CustomA of the same priority.
C5_Witness ==
  /\ last[1] = "update"
  /\ Len(systems) = 4
  /\ systems[1] = 2 /\ systems[2] = 5
  /\ ~sysEnabled[5] /\ sysEnabled[2]
  /\ Len(ManagerCalls(callLog)) = 3

\* C6: one World.update(dt) runs, for every enabled system, its update phase,
\* its fixedUpdate phase and its lateUpdate phase.
C6_TickRunsAllPhases ==
  last[1] = "update" =>
    \A i \in 1 .. Len(systems) :
      sysEnabled[systems[i]] =>
        /\ \E k \in 1 .. Len(callLog) :
             callLog[k][1] = "update" /\ callLog[k][2] = systems[i]
        /\ \E k \in 1 .. Len(callLog) :
             callLog[k][1] = "lateUpdate" /\ callLog[k][2] = systems[i]

(***************************************************************************)
(* SpecAccum: PhysicsSystem.update called frame after frame.               *)
(***************************************************************************)
StepChoices == {x \in 2 .. 5 : Representable(x)}
InitAccum ==
  InitEcs /\ InitSys /\ InitAcc(StepChoices) /\ InitPhys /\ InitLast({"physicsUpdate"})
NextAccum == \E dt \in Deltas : PhysicsUpdate(dt)
SpecAccum == InitAccum /\ [][NextAccum]_vars

\* C7 as claimed: the passes run so far number floor(T / step), T the sum of
\* the deltas, and the simulated time is floor(T / step) * step.
C7_PassesAreFloor ==
  /\ passes = elapsed \div fixedTimeStep
  /\ simulated = (elapsed \div fixedTimeStep) * fixedTimeStep

\* C7 amended: every pass is called with exactly fixedTimeStep, so the
\* simulated time is passes * step; and as long as no addition to or
\* subtraction from the accumulator was rounded, the passes number
\* floor(T / step) and the accumulator holds the remainder.
C7_PassesAreFloorWhenExact ==
  /\ simulated = passes * fixedTimeStep
  /\ ~inexact =>
       /\ passes = elapsed \div fixedTimeStep
       /\ accumulator = elapsed % fixedTimeStep

\* C7 witness: three exact frames summing to 13 quanta with step 3: a frame
\* that ran no pass, then frames that ran several.
C7_Witness ==
  /\ ~inexact
  /\ fixedTimeStep = 3
  /\ elapsed = 13
  /\ passes = 4
  /\ accumulator = 1
  /\ last = <<"physicsUpdate", 5, Null, 0, "">>

(***************************************************************************)
(* SpecPhys: a World of NumEntities entities, each with a Transform and a  *)
(* RigidBody with one collider, as a scene set-up leaves them; then calls  *)
(* on the bodies and passes of PhysicsSystem.fixedUpdate.                  *)
(***************************************************************************)
WithCollider(type, mass, useGravity, collider) ==
  AddCollider([NewRigidBody(type) EXCEPT !.mass = mass, !.useGravity = useGravity],
              collider)
StaticBox == AddCollider(NewRigidBody("static"), BoxCollider(Ones, FALSE))
StaticSphere == AddCollider(NewRigidBody("static"), SphereCollider(Half, FALSE))
DynamicBox == WithCollider("dynamic", <<3, 1>>, FALSE, BoxCollider(<<>>, FALSE))
DynamicSphere == WithCollider("dynamic", R1, FALSE, SphereCollider(R0, FALSE))
TriggerSphere == WithCollider("dynamic", R1, FALSE, SphereCollider(Half, TRUE))
KinematicBox == WithCollider("kinematic", <<2, 1>>, FALSE, BoxCollider(Ones, FALSE))
FallingSphere == AddCollider(NewRigidBody("dynamic"), SphereCollider(Half, FALSE))

\* The bodies and the positions an entity of the scene may be given.
BodiesOf(e) ==
  CASE e = 0 -> {StaticBox, StaticSphere, DynamicBox, DynamicSphere}
    [] e = 1 -> {StaticBox, DynamicBox, DynamicSphere, TriggerSphere}
    [] OTHER -> {DynamicSphere, KinematicBox, FallingSphere}
PositionsOf(e) ==
  CASE e = 0 -> {Zero}
    [] e = 1 -> {<<Half, R0, R0>>, <<R0, <<3, 4>>, R0>>}
    [] OTHER -> {<<RNeg(Half), R0, R0>>, <<<<5, 1>>, R0, R0>>}

\* The arguments of the calls.
Forces == {<<<<2, 1>>, R0, R0>>}
Torques == {<<R0, R0, R1>>}
Points == {<<R0, R1, R0>>}
ForceModes == {"force", "impulse", "acceleration"}
TorqueModes == {"force", "impulse"}
StepSizes == {Half}

InitScene ==
  /\ nextEntityId = NumEntities
  /\ active = [e \in Ent |-> TRUE]
  /\ parent = [e \in Ent |-> Null]
  /\ children = [e \in Ent |-> <<>>]
  /\ components = [e \in Ent |-> << <<"Transform", 2 * e + 1>>,
                                    <<"RigidBody", 2 * e + 2>> >>]
  /\ nextInst = 2 * NumEntities
  /\ onAttachCalls = [i \in 1 .. (2 * NumEntities) |-> 1]
  /\ onDetachCalls = [i \in 1 .. (2 * NumEntities) |-> 0]
  /\ detachLog = <<>>
  /\ entities = [i \in 1 .. NumEntities |-> i - 1]
  /\ InitIndex(entities)
  /\ InitExt
  /\ InitEd
  /\ rootEntities = [i \in 1 .. NumEntities |-> i - 1]
  /\ collisionCallbacks = <<>>
  /\ rigidBody \in {f \in [Ent -> UNION {BodiesOf(e) : e \in Ent}] :
                      \A e \in Ent : f[e] \in BodiesOf(e)}
  /\ transform \in {f \in [Ent -> {[NewTransform EXCEPT !.position = p] :
                                     p \in UNION {PositionsOf(e) : e \in Ent}}] :
                      \A e \in Ent : f[e].position \in PositionsOf(e)}
  /\ collisionLog = <<>>
  /\ preCollision = [rb |-> rigidBody, tf |-> transform]
  /\ physOps = 0

InitPhysics ==
  /\ InitScene
  /\ InitSys
  /\ InitAcc({DefaultFixedTimeStep})
  /\ InitLast({"addForce", "physicsFixedUpdate"})
NextPhys ==
  \/ \E e \in Ent, f \in Forces, mode \in ForceModes : AddForce(e, f, mode)
  \/ \E e \in Ent, t \in Torques, mode \in TorqueModes : AddTorque(e, t, mode)
  \/ \E e \in Ent, f \in Forces, p \in Points, mode \in TorqueModes :
       AddForceAtPosition(e, f, p, mode)
  \/ \E e \in Ent, dt \in StepSizes : RigidBodyFixedUpdate(e, dt)
  \/ \E dt \in StepSizes : PhysicsFixedUpdate(dt)
  \/ OnCollision
SpecPhys == InitPhysics /\ [][NextPhys]_vars

\* C8: the velocity and the angular velocity of every static body are the
\* zero vector, whatever forces and torques were added to it, whatever
\* fixed steps ran and whatever bodies it collided with.
C8_StaticBodyAtRest ==
  \A e \in Ent :
    rigidBody[e].bodyType = "static" =>
      /\ rigidBody[e].velocity = Zero
      /\ rigidBody[e].angularVelocity = Zero

\* Whether the pair of record r was passed on to the separation code.
Resolved(r) ==
  /\ ~AnyTrigger(rigidBody[r.entityA].colliders)
  /\ ~AnyTrigger(rigidBody[r.entityB].colliders)
  /\ ~(rigidBody[r.entityA].bodyType = "static"
       /\ rigidBody[r.entityB].bodyType = "static")

\* C8 witness: a static body collided with a non-static body that the
\* resolution moved, and then received an impulse by addForce.
C8_Witness ==
  \E e \in Ent :
    /\ rigidBody[e].bodyType = "static"
    /\ last = <<"addForce", e, Null, 0, "impulse">>
    /\ \E k \in 1 .. Len(collisionLog) :
         /\ collisionLog[k].entityA = e
         /\ Resolved(collisionLog[k])
         /\ collisionLog[k].posB2 # collisionLog[k].posB

\* Whether a collider tested for record r is a trigger.
TriggerPair(r) ==
  \/ rigidBody[r.entityA].colliders[1].isTrigger
  \/ rigidBody[r.entityB].colliders[1].isTrigger

\* C9 as claimed: when a pass found a pair overlapping and one of the two
\* colliders is a trigger, the collision phase of the pass changed neither
\* body's velocity or position, and every registered callback was invoked
\* for the pair.
C9_TriggerPhaseChangesNothing ==
  last[1] = "physicsFixedUpdate" =>
    \A k \in 1 .. Len(collisionLog) :
      LET r == collisionLog[k] IN
      TriggerPair(r) =>
        /\ \A e \in {r.entityA, r.entityB} :
             /\ transform[e].position = preCollision.tf[e].position
             /\ rigidBody[e].velocity = preCollision.rb[e].velocity
        /\ r.notified = collisionCallbacks

\* C9 amended: the handling of that pair changed neither body's velocity or
\* position, and every registered callback was invoked for the pair; a body
\* of the pair can still be moved in the same phase by its collision with a
\* third body.
C9_TriggerPairChangesNothing ==
  last[1] = "physicsFixedUpdate" =>
    \A k \in 1 .. Len(collisionLog) :
      LET r == collisionLog[k] IN
      TriggerPair(r) =>
        /\ r.posA2 = r.posA /\ r.posB2 = r.posB
        /\ r.velA2 = r.velA /\ r.velB2 = r.velB
        /\ r.notified = collisionCallbacks

\* C9 witness: a pass with two callbacks registered found a trigger pair and
\* notified both callbacks of it.
C9_Witness ==
  /\ last[1] = "physicsFixedUpdate"
  /\ Len(collisionCallbacks) = 2
  /\ \E k \in 1 .. Len(collisionLog) :
       /\ TriggerPair(collisionLog[k])
       /\ collisionLog[k].notified = <<1, 2>>
       /\ collisionLog[k].velB # Zero

\* The penetration depth of the pair of record r after its resolution.
DepthOf(collision) == IF collision.hit THEN collision.depth ELSE R0
DepthAfter(r) ==
  DepthOf(CheckCollision([NewTransform EXCEPT !.position = r.posA2],
                         rigidBody[r.entityA].colliders[1],
                         [NewTransform EXCEPT !.position = r.posB2],
                         rigidBody[r.entityB].colliders[1]))

\* C10: every resolved collision of a pair that overlaps by a positive depth
\* leaves the pair less deep than it found it, and does not move a static
\* body.
C10_CorrectionSeparates ==
  \A k \in 1 .. Len(collisionLog) :
    LET r == collisionLog[k] IN
    (Resolved(r) /\ RLt(R0, r.depth)) =>
      /\ RLt(DepthAfter(r), r.depth)
      /\ rigidBody[r.entityA].bodyType = "static" => r.posA2 = r.posA
      /\ rigidBody[r.entityB].bodyType = "static" => r.posB2 = r.posB

(***************************************************************************)
(* The velocity response of resolveCollision.                               *)
(***************************************************************************)
\* Whether the bodies of record r were approaching when the pair was
\* resolved: the distance between the centres along the contact axis (the
\* collision normal) was decreasing.
Approaching(r) ==
  RLt(RMul(VDot(VSub(r.posB, r.posA), r.normal),
           VDot(VSub(r.velB, r.velA), r.normal)), R0)
VelocityChanged(r) == r.velA2 # r.velA \/ r.velB2 # r.velB

\* C11: every resolved collision changes the velocities of its bodies if and
\* only if the two bodies were approaching each other; overlapping bodies
\* that are already separating keep their velocities.
C11_ResponseIffApproaching ==
  \A k \in 1 .. Len(collisionLog) :
    Resolved(collisionLog[k]) =>
      (VelocityChanged(collisionLog[k]) <=> Approaching(collisionLog[k]))

(***************************************************************************)
(* SpecImpact: two dynamic bodies of equal mass in a World, 3 units apart  *)
(* on one axis, moving toward each other at speed 2 each with no gravity   *)
(* and no drag, stepped with the fixed step 1/60.                          *)
(***************************************************************************)
\* Passes of fixedUpdate run on the scene.
MaxSteps == 33
ImpactColliders == {SphereCollider(Half, FALSE), BoxCollider(Ones, FALSE)}
ImpactMasses == {Half, R1, <<2, 1>>}
ImpactSpeed == <<2, 1>>
\* The vector of length x on axis a.
OnAxis(a, x) ==
  <<IF a = 1 THEN x ELSE R0, IF a = 2 THEN x ELSE R0, IF a = 3 THEN x ELSE R0>>
\* A body after setVelocity(velocity).
SetVelocity(b, velocity) == [b EXCEPT !.velocity = velocity]

\* PhysicsSystem.fixedUpdate(this.fixedTimeStep), pass after pass.
FixedUpdatePass ==
  /\ physOps < MaxSteps
  /\ physOps' = physOps + 1
  /\ SetPhysState(FixedStep(PhysState, Seconds(DefaultFixedTimeStep),
                            collisionCallbacks))
  /\ last' = Note(<<"physicsFixedUpdate", Null, Null, 0, "">>)
  /\ UNCHANGED collisionCallbacks
  /\ UNCHANGED <<trace, extVars, edVars, idxVars, ecsVars, sysVars, accVars>>

InitImpact ==
  /\ nextEntityId = NumEntities
  /\ active = [e \in Ent |-> TRUE]
  /\ parent = [e \in Ent |-> Null]
  /\ children = [e \in Ent |-> <<>>]
  /\ components = [e \in Ent |-> << <<"Transform", 2 * e + 1>>,
                                    <<"RigidBody", 2 * e + 2>> >>]
  /\ nextInst = 2 * NumEntities
  /\ onAttachCalls = [i \in 1 .. (2 * NumEntities) |-> 1]
  /\ onDetachCalls = [i \in 1 .. (2 * NumEntities) |-> 0]
  /\ detachLog = <<>>
  /\ entities = <<0, 1>>
  /\ InitIndex(entities)
  /\ InitExt
  /\ InitEd
  /\ rootEntities = <<0, 1>>
  /\ collisionCallbacks = <<>>
  /\ \E a \in Axes, mass \in ImpactMasses, collider \in ImpactColliders :
       /\ rigidBody =
            [e \in Ent |->
               SetVelocity(WithCollider("dynamic", mass, FALSE, collider),
                           OnAxis(a, IF e = 0 THEN ImpactSpeed
                                     ELSE RNeg(ImpactSpeed)))]
       /\ transform =
            [e \in Ent |->
               [NewTransform EXCEPT
                  !.position = OnAxis(a, Norm(3 * (2 * e - 1), 2))]]
  /\ collisionLog = <<>>
  /\ preCollision = [rb |-> rigidBody, tf |-> transform]
  /\ physOps = 0
  /\ InitSys
  /\ InitAcc({DefaultFixedTimeStep})
  /\ InitLast({"physicsFixedUpdate"})
NextImpact ==
  \/ FixedUpdatePass
  \/ OnCollision
SpecImpact == InitImpact /\ [][NextImpact]_vars

\* Whether the pass that has just run found the two bodies overlapping and
\* notified a callback of it.
Contact == collisionLog # <<>> /\ collisionLog[1].notified # <<>>
\* Whether the bodies of record r left the resolution with velocities of the
\* opposite sign to those they came with.
Reversed(r) ==
  /\ RLt(VDot(r.velA, r.velA2), R0)
  /\ RLt(VDot(r.velB, r.velB2), R0)

\* C12: for the two spheres, the pass in which they first overlap reverses
\* the sign of both velocities, and a callback notified of the contact in one
\* pass is not notified again in the pass that follows.
C12_BounceOnce ==
  /\ [](\A k \in 1 .. Len(collisionLog) :
          (/\ rigidBody[0].colliders[1].shape = "sphere"
           /\ collisionLog[k].velA = preCollision.rb[0].velocity
           /\ RLt(R0, VDot(collisionLog[k].velA, VSub(collisionLog[k].posB,
                                                     collisionLog[k].posA))))
          => Reversed(collisionLog[k]))
  /\ [][(rigidBody[0].colliders[1].shape = "sphere" /\ Contact) => ~Contact']_vars

\* Whether the bodies of record r came head-on with opposite velocities.
HeadOn(r) ==
  /\ r.velA = VScale(r.velB, RNeg(R1))
  /\ Approaching(r)
\* Whether the bodies of record r left the resolution moving away from each
\* other.
DirectedApart(r) ==
  RLt(R0, VDot(VSub(r.velB2, r.velA2), VSub(r.posB, r.posA)))

\* C13: two dynamic bodies of equal mass that collide head-on with opposite
\* velocities leave the resolution with opposite velocities directed apart.
C13_EqualMassesPart ==
  \A k \in 1 .. Len(collisionLog) :
    (/\ Resolved(collisionLog[k])
     /\ rigidBody[collisionLog[k].entityA].mass
          = rigidBody[collisionLog[k].entityB].mass
     /\ HeadOn(collisionLog[k]))
    => /\ collisionLog[k].velA2 = VScale(collisionLog[k].velB2, RNeg(R1))
       /\ DirectedApart(collisionLog[k])

(***************************************************************************)
(* SpecLoad: a World of bodies that are disabled, have their rotation      *)
(* frozen or lack a Transform, placed far apart; then calls on the bodies  *)
(* and passes of PhysicsSystem.fixedUpdate.                                *)
(***************************************************************************)
\* A body after the assignment enabled = false / freezeRotation = true.
Disabled(b) == [b EXCEPT !.enabled = FALSE]
FrozenRotation(b) == [b EXCEPT !.freezeRotation = TRUE]

LoadBodiesOf(e) ==
  CASE e = 0 -> {DynamicSphere, StaticBox, FrozenRotation(DynamicSphere)}
    [] e = 1 -> {Disabled(DynamicSphere), FrozenRotation(FallingSphere)}
    [] OTHER -> {DynamicBox, KinematicBox}
\* The components of entity e: the last entity may lack a Transform.
LoadComponentsOf(e) ==
  IF e = NumEntities - 1
  THEN {<< <<"Transform", 2 * e + 1>>, <<"RigidBody", 2 * e + 2>> >>,
        << <<"RigidBody", 2 * e + 2>> >>}
  ELSE {<< <<"Transform", 2 * e + 1>>, <<"RigidBody", 2 * e + 2>> >>}

InitLoad ==
  /\ nextEntityId = NumEntities
  /\ active = [e \in Ent |-> TRUE]
  /\ parent = [e \in Ent |-> Null]
  /\ children = [e \in Ent |-> <<>>]
  /\ components \in {f \in [Ent -> UNION {LoadComponentsOf(e) : e \in Ent}] :
                       \A e \in Ent : f[e] \in LoadComponentsOf(e)}
  /\ nextInst = 2 * NumEntities
  /\ onAttachCalls = [i \in 1 .. (2 * NumEntities) |-> 1]
  /\ onDetachCalls = [i \in 1 .. (2 * NumEntities) |-> 0]
  /\ detachLog = <<>>
  /\ entities = [i \in 1 .. NumEntities |-> i - 1]
  /\ InitIndex(entities)
  /\ InitExt
  /\ InitEd
  /\ rootEntities = [i \in 1 .. NumEntities |-> i - 1]
  /\ collisionCallbacks = <<>>
  /\ rigidBody \in {f \in [Ent -> UNION {LoadBodiesOf(e) : e \in Ent}] :
                      \A e \in Ent : f[e] \in LoadBodiesOf(e)}
  /\ transform = [e \in Ent |->
                    [NewTransform EXCEPT !.position = <<<<5 * e, 1>>, R0, R0>>]]
  /\ collisionLog = <<>>
  /\ preCollision = [rb |-> rigidBody, tf |-> transform]
  /\ physOps = 0
  /\ InitSys
  /\ InitAcc({DefaultFixedTimeStep})
  /\ InitLast({"addForceAtPosition", "physicsFixedUpdate"})
SpecLoad == InitLoad /\ [][NextPhys]_vars

\* C14: after every pass of PhysicsSystem.fixedUpdate the force and torque
\* accumulators of every RigidBody in the World are zero, whether the body is
\* disabled, has its rotation frozen or lacks a Transform.
C14_LoadsCleared ==
  last[1] = "physicsFixedUpdate" =>
    \A e \in Range(entities) :
      HasComponent(e, "RigidBody") =>
        /\ rigidBody[e].forces = Zero
        /\ rigidBody[e].torques = Zero

\* C15 as claimed: addForceAtPosition on a body that is static or has
\* freezeRotation set changes none of velocity, angularVelocity, forces and
\* torques.
C15_NoOpStep ==
  LET e == last'[2] IN
  (/\ last'[1] = "addForceAtPosition"
   /\ (rigidBody[e].bodyType = "static" \/ rigidBody[e].freezeRotation))
  => /\ rigidBody'[e].velocity = rigidBody[e].velocity
     /\ rigidBody'[e].angularVelocity = rigidBody[e].angularVelocity
     /\ rigidBody'[e].forces = rigidBody[e].forces
     /\ rigidBody'[e].torques = rigidBody[e].torques
C15_AtPositionIsNoOp == [][C15_NoOpStep]_vars

\* C15 amended: on a static body the call changes none of the four; on a
\* body with freezeRotation set it changes neither angularVelocity nor
\* torques, and changes velocity and forces as addForce with the same force
\* and mode does (not at all when the entity lacks a Transform).
C15_TorqueDroppedStep ==
  LET e == last'[2]
      mode == last'[5]
  IN
  /\ (last'[1] = "addForceAtPosition" /\ rigidBody[e].bodyType = "static")
     => rigidBody'[e] = rigidBody[e]
  /\ (last'[1] = "addForceAtPosition" /\ rigidBody[e].freezeRotation)
     => /\ rigidBody'[e].angularVelocity = rigidBody[e].angularVelocity
        /\ rigidBody'[e].torques = rigidBody[e].torques
        /\ \E force \in Forces :
             rigidBody'[e] = IF HasComponent(e, "Transform")
                             THEN AddForceB(rigidBody[e], force, mode)
                             ELSE rigidBody[e]
C15_AtPositionDropsTorque == [][C15_TorqueDroppedStep]_vars

\* C15 witness: addForceAtPosition in impulse mode was called on a dynamic
\* body with freezeRotation set, whose velocity it changed and whose angular
\* velocity it left at zero.
C15_Witness ==
  /\ last[1] = "addForceAtPosition"
  /\ last[5] = "impulse"
  /\ rigidBody[last[2]].freezeRotation
  /\ rigidBody[last[2]].bodyType = "dynamic"
  /\ rigidBody[last[2]].velocity # Zero
  /\ rigidBody[last[2]].angularVelocity = Zero

(***************************************************************************)
(* SpecDirty: calls of the mutators of Transforms and reads of their       *)
(* localMatrix.                                                            *)
(***************************************************************************)
\* Calls made on the Transforms of a scene.
MaxTransformCalls == 3

\* A call of a Transform mutator on entity e that leaves the Transform t2.
TransformCall(e, op, t2) ==
  /\ physOps < MaxTransformCalls
  /\ HasComponent(e, "Transform")
  /\ transform' = [transform EXCEPT ![e] = t2]
  /\ physOps' = physOps + 1
  /\ last' = Note(<<op, e, Null, 0, "">>)
  /\ UNCHANGED <<trace, extVars, edVars, idxVars, ecsVars, sysVars, accVars, collisionCallbacks,
                 rigidBody, collisionLog, preCollision>>

TransformSetPosition(e, p) ==
  TransformCall(e, "setPosition", SetPosition(transform[e], p))
TransformSetRotation(e, r) ==
  TransformCall(e, "setRotation", SetRotation(transform[e], r))
TransformSetRotationFromQuaternion(e, q) ==
  TransformCall(e, "setRotationFromQuaternion",
                SetRotationFromQuaternion(transform[e], q))
TransformSetScale(e, sc) ==
  TransformCall(e, "setScale", SetScale(transform[e], sc))
TransformTranslate(e, d) ==
  TransformCall(e, "translate", Translate(transform[e], d))
TransformTranslateLocal(e, d) ==
  TransformCall(e, "translateLocal", TranslateLocal(transform[e], d))
TransformRotate(e, d) ==
  TransformCall(e, "rotate", Rotate(transform[e], d))
TransformRotateOnAxis(e, angle) ==
  TransformCall(e, "rotateOnAxis", RotateOnAxis(transform[e], angle))
TransformLookAt(e, q) ==
  TransformCall(e, "lookAt", LookAt(transform[e], q))
TransformDeserialize(e, data) ==
  TransformCall(e, "deserialize", Deserialize(transform[e], data))
\* The property setters: each copies the value as the set... method does.
AssignPosition(e, p) ==
  TransformCall(e, "position=", SetPosition(transform[e], p))
AssignRotation(e, r) ==
  TransformCall(e, "rotation=", SetRotation(transform[e], r))
AssignQuaternion(e, q) ==
  TransformCall(e, "quaternion=", SetRotationFromQuaternion(transform[e], q))
AssignScale(e, sc) ==
  TransformCall(e, "scale=", SetScale(transform[e], sc))

\* A read of transform.localMatrix: the number of updateMatrix calls it made
\* and the matrix it returned are recorded.
ReadLocalMatrix(e) ==
  /\ physOps < MaxTransformCalls
  /\ HasComponent(e, "Transform")
  /\ transform' = [transform EXCEPT ![e] = GetLocalMatrix(@)]
  /\ physOps' = physOps + 1
  /\ last' = Note(<<"localMatrix", e,
                    IF transform[e].matrixNeedsUpdate THEN 1 ELSE 0,
                    GetLocalMatrix(transform[e]).localMatrix, "">>)
  /\ UNCHANGED <<trace, extVars, edVars, idxVars, ecsVars, sysVars, accVars, collisionCallbacks,
                 rigidBody, collisionLog, preCollision>>

Mutators ==
  {"setPosition", "setRotation", "setRotationFromQuaternion", "setScale",
   "translate", "translateLocal", "rotate", "rotateOnAxis", "lookAt",
   "deserialize", "position=", "rotation=", "quaternion=", "scale="}

\* The arguments of the calls: offsets, angles in quarter turns, scales.
Offsets == {<<R1, R0, R0>>}
Angles == {<<R0, HalfTurn, R0>>, <<R0, R0, R1>>}
Quaternions == {SetFromEuler(a) : a \in Angles}
Scales == {<<HalfTurn, HalfTurn, HalfTurn>>}
Serialized ==
  {[position |-> <<R0, R1, R0>>, rotation |-> <<>>, scale |-> <<>>],
   [position |-> <<>>, rotation |-> <<R1, R0, R0>>, scale |-> Ones]}
\* The entities whose Transforms are called.
Movers == {0, 1}

InitDirty ==
  /\ nextEntityId = NumEntities
  /\ active = [e \in Ent |-> TRUE]
  /\ parent = [e \in Ent |-> Null]
  /\ children = [e \in Ent |-> <<>>]
  /\ components = [e \in Ent |-> <<(<<"Transform", e + 1>>)>>]
  /\ nextInst = NumEntities
  /\ onAttachCalls = [i \in Inst |-> 1]
  /\ onDetachCalls = [i \in Inst |-> 0]
  /\ detachLog = <<>>
  /\ entities = [i \in 1 .. NumEntities |-> i - 1]
  /\ InitIndex(entities)
  /\ InitExt
  /\ InitEd
  /\ rootEntities = [i \in 1 .. NumEntities |-> i - 1]
  /\ InitSys /\ InitAcc({DefaultFixedTimeStep}) /\ InitPhys
  /\ InitLast(Mutators \cup {"localMatrix"})

NextDirty ==
  \/ \E e \in Movers, p \in Offsets : TransformSetPosition(e, p)
  \/ \E e \in Movers, r \in Angles : TransformSetRotation(e, r)
  \/ \E e \in Movers, q \in Quaternions : TransformSetRotationFromQuaternion(e, q)
  \/ \E e \in Movers, sc \in Scales : TransformSetScale(e, sc)
  \/ \E e \in Movers, d \in Offsets : TransformTranslate(e, d)
  \/ \E e \in Movers, d \in Offsets : TransformTranslateLocal(e, d)
  \/ \E e \in Movers, d \in Angles : TransformRotate(e, d)
  \/ \E e \in Movers : TransformRotateOnAxis(e, R1)
  \/ \E e \in Movers, q \in Quaternions : TransformLookAt(e, q)
  \/ \E e \in Movers, data \in Serialized : TransformDeserialize(e, data)
  \/ \E e \in Movers, p \in Offsets : AssignPosition(e, p)
  \/ \E e \in Movers, r \in Angles : AssignRotation(e, r)
  \/ \E e \in Movers, q \in Quaternions : AssignQuaternion(e, q)
  \/ \E e \in Movers, sc \in Scales : AssignScale(e, sc)
  \/ \E e \in Movers : ReadLocalMatrix(e)
SpecDirty == InitDirty /\ [][NextDirty]_vars

\* C16: every Transform mutator leaves the matrix flagged for update; a read
\* of localMatrix on a flagged Transform calls updateMatrix once, returns the
\* matrix composed from position, quaternion and scale and clears the flag; a
\* read on an unflagged Transform composes nothing, changes nothing and
\* returns the cached matrix, the one the read before it returned.
C16_DirtyFlagStep ==
  LET e == last'[2] IN
    /\ last'[1] \in Mutators => transform'[e].matrixNeedsUpdate
    /\ (last'[1] = "localMatrix" /\ transform[e].matrixNeedsUpdate) =>
         /\ last'[3] = 1
         /\ last'[4] = Compose(transform[e].position, transform[e].quaternion,
                               transform[e].scale)
         /\ transform' = [transform EXCEPT ![e].localMatrix = last'[4],
                                           ![e].matrixNeedsUpdate = FALSE]
    /\ (last'[1] = "localMatrix" /\ ~transform[e].matrixNeedsUpdate) =>
         /\ last'[3] = 0
         /\ last'[4] = transform[e].localMatrix
         /\ transform' = transform
    /\ (last'[1] = "localMatrix" /\ last[1] = "localMatrix" /\ last[2] = e) =>
         /\ last'[3] = 0
         /\ last'[4] = last[4]
C16_DirtyFlag == [][C16_DirtyFlagStep]_vars

\* C16 witness: a Transform was read, translated and read again, and the
\* second read returned a matrix composed anew; its flag is clear.
C16_Witness ==
  /\ last[1] = "localMatrix"
  /\ last[3] = 1
  /\ physOps = 3
  /\ last[4] = Compose(<<R1, R0, R0>>, Zero, Ones)
  /\ transform[last[2]].localMatrix = last[4]
  /\ ~transform[last[2]].matrixNeedsUpdate
  /\ \A e \in Ent \ {last[2]} : transform[e] = NewTransform

(***************************************************************************)
(* SpecMatrix: a hierarchy of entities with Transforms under re-parenting, *)
(* Transform mutators and reads of worldMatrix.                            *)
(***************************************************************************)
\* _worldMatrix.copy(_localMatrix).
CopyLocal(t) == [t EXCEPT !.worldMatrix = t.localMatrix]

\* The world matrix of e without the parent's.
MultiplyByParentSkipped(r, e, p) ==
  IF r.thrown THEN r
  ELSE [tf |-> [r.tf EXCEPT ![e] = CopyLocal(@)], thrown |-> FALSE]
\* _worldMatrix.multiplyMatrices(parentTransform.worldMatrix, _localMatrix),
\* r being the Transforms after the read of the parent's worldMatrix.
MultiplyByParent(r, e, p) ==
  IF r.thrown THEN r
  ELSE [tf |-> [r.tf EXCEPT ![e].worldMatrix =
                  MultiplyMatrices(r.tf[p].worldMatrix, r.tf[e].localMatrix)],
        thrown |-> FALSE]

\* Transform.updateWorldMatrix of entity e with n stack frames left: the
\* Transforms after the call, and whether it ended by RangeError.
RECURSIVE UpdateWorldMatrix(_, _, _)
UpdateWorldMatrix(tf, e, n) ==
  IF n = 0 THEN [tf |-> tf, thrown |-> TRUE]
  ELSE IF parent[e] # Null /\ HasComponent(parent[e], "Transform")
  THEN MultiplyByParent(
         UpdateWorldMatrix([tf EXCEPT ![e] = GetLocalMatrix(@)], parent[e], n - 1),
         e, parent[e])
  ELSE [tf |-> [tf EXCEPT ![e] = CopyLocal(GetLocalMatrix(@))], thrown |-> FALSE]

\* A read of transform.worldMatrix: whether it threw (1) and the matrix it
\* returned are recorded.
ReadWorldMatrix(e) ==
  /\ physOps < MaxTransformCalls
  /\ HasComponent(e, "Transform")
  /\ \E r \in {UpdateWorldMatrix(transform, e, MaxStack)} :
       /\ transform' = r.tf
       /\ last' = Note(<<"worldMatrix", e, IF r.thrown THEN 1 ELSE 0,
                         IF r.thrown THEN <<>> ELSE r.tf[e].worldMatrix, "">>)
  /\ physOps' = physOps + 1
  /\ UNCHANGED <<trace, extVars, edVars, idxVars, ecsVars, sysVars, accVars, collisionCallbacks,
                 rigidBody, collisionLog, preCollision>>

\* The last entity may lack a Transform; the first one stays a root.
MatrixComponentsOf(e) ==
  IF e = NumEntities - 1
  THEN {<<(<<"Transform", e + 1>>)>>, <<>>}
  ELSE {<<(<<"Transform", e + 1>>)>>}

InitMatrix ==
  /\ nextEntityId = NumEntities
  /\ active = [e \in Ent |-> TRUE]
  /\ parent = [e \in Ent |-> Null]
  /\ children = [e \in Ent |-> <<>>]
  /\ components \in {f \in [Ent -> UNION {MatrixComponentsOf(e) : e \in Ent}] :
                       \A e \in Ent : f[e] \in MatrixComponentsOf(e)}
  /\ nextInst = NumEntities
  /\ onAttachCalls = [i \in Inst |-> 1]
  /\ onDetachCalls = [i \in Inst |-> 0]
  /\ detachLog = <<>>
  /\ entities = [i \in 1 .. NumEntities |-> i - 1]
  /\ InitIndex(entities)
  /\ InitExt
  /\ InitEd
  /\ rootEntities = [i \in 1 .. NumEntities |-> i - 1]
  /\ InitSys /\ InitAcc({DefaultFixedTimeStep}) /\ InitPhys
  /\ InitLast({"worldMatrix"})

NextMatrix ==
  \/ \E p \in Ent, c \in Ent \ {0} : AddChild(p, c)
  \/ \E p \in Ent, c \in Ent \ {0} : RemoveChild(p, c)
  \/ \E e \in Movers, d \in Offsets : TransformTranslate(e, d)
  \/ \E e \in Movers, sc \in Scales : TransformSetScale(e, sc)
  \/ \E e \in Movers : TransformRotateOnAxis(e, R1)
  \/ \E e \in Ent : ReadWorldMatrix(e)
SpecMatrix == InitMatrix /\ [][NextMatrix]_vars

\* The matrix composed from the present position, quaternion and scale.
LocalOf(e) ==
  Compose(transform[e].position, transform[e].quaternion, transform[e].scale)
\* The product of the local matrices from the topmost ancestor in an unbroken
\* chain of Transforms down to e, over at most n entities.
RECURSIVE WorldOfUpTo(_, _)
WorldOfUpTo(e, n) ==
  IF n > 1 /\ parent[e] # Null /\ HasComponent(parent[e], "Transform")
  THEN MultiplyMatrices(WorldOfUpTo(parent[e], n - 1), LocalOf(e))
  ELSE LocalOf(e)
\* Whether the parent chain of e runs into a cycle.
RECURSIVE CyclicUpTo(_, _)
CyclicUpTo(e, n) ==
  IF parent[e] = Null \/ ~HasComponent(parent[e], "Transform") THEN FALSE
  ELSE IF n = 0 THEN TRUE
  ELSE CyclicUpTo(parent[e], n - 1)

\* C17: a read of worldMatrix that returns gives the product of the parent's
\* world matrix and the entity's local matrix when the parent has a
\* Transform, the local matrix otherwise, each computed from the positions,
\* rotations, scales and parents of the moment of the read; and it returns
\* whenever the chain of parents is free of cycles.
C17_WorldMatrixStep ==
  LET e == last'[2] IN
    /\ (last'[1] = "worldMatrix" /\ last'[3] = 0) =>
         /\ last'[4] = WorldOfUpTo(e, NumEntities)
         /\ last'[4] = IF parent[e] # Null /\ HasComponent(parent[e], "Transform")
                       THEN MultiplyMatrices(transform'[parent[e]].worldMatrix,
                                             LocalOf(e))
                       ELSE LocalOf(e)
    /\ last'[1] = "worldMatrix" => (last'[3] = 1 <=> CyclicUpTo(e, NumEntities))
C17_WorldMatrix == [][C17_WorldMatrixStep]_vars

\* C17 witness: the world matrix of the entity at the bottom of a chain of
\* three was read after the topmost ancestor, whose matrices were clean from an
\* earlier read, had been translated: the result has the ancestor's position
\* of now, and all three are clean.
C17_Witness ==
  /\ last[1] = "worldMatrix" /\ last[3] = 0
  /\ physOps = 3
  /\ Len(last[4]) = 3
  /\ last[4][1][1] = <<R1, R0, R0>>
  /\ \A e \in Ent : ~transform[e].matrixNeedsUpdate
  /\ \A e \in Ent \ {last[2]} : Len(transform[e].worldMatrix) < 3

(***************************************************************************)
(* SpecTags: entities created, registered, removed and tagged.             *)
(***************************************************************************)
\* Entity.addTag / removeTag (Entity.ts 58-64).
AddTag(e, t) ==
  /\ e \in Constructed
  /\ tags' = [tags EXCEPT ![e] = @ \cup {t}]
  /\ last' = Note(<<"addTag", e, Null, 0, t>>)
  /\ detachLog' = <<>>
  /\ UNCHANGED <<trace, extVars, edVars, name, entitiesByName, entitiesByTag, command, sysVars,
                 accVars, physVars>>
  /\ UNCHANGED <<nextEntityId, active, parent, children, components, nextInst,
                 onAttachCalls, onDetachCalls, entities, rootEntities>>

RemoveTag(e, t) ==
  /\ e \in Constructed
  /\ tags' = [tags EXCEPT ![e] = @ \ {t}]
  /\ last' = Note(<<"removeTag", e, Null, 0, t>>)
  /\ detachLog' = <<>>
  /\ UNCHANGED <<trace, extVars, edVars, name, entitiesByName, entitiesByTag, command, sysVars,
                 accVars, physVars>>
  /\ UNCHANGED <<nextEntityId, active, parent, children, components, nextInst,
                 onAttachCalls, onDetachCalls, entities, rootEntities>>

\* Entity.hasTag.
HasTag(e, t) == t \in tags[e]

\* World.getEntitiesWithTag (World.ts 78-82).
GetEntitiesWithTag(t) == Filter(entitiesByTag[t], {e \in Ent : active[e]})

\* The entities that are given tags.
Taggable == {0, 1}
InitTags == InitEcs /\ InitRest /\ InitLast({})
NextTags ==
  \/ NewEntity
  \/ CreateEntity
  \/ \E e \in Ent : AddEntity(e)
  \/ \E e \in Ent : RemoveEntity(e)
  \/ \E e \in Taggable, t \in Tags : AddTag(e, t)
  \/ \E e \in Taggable, t \in Tags : RemoveTag(e, t)
SpecTags == InitTags /\ [][NextTags]_vars

\* C18: getEntitiesWithTag(t) returns exactly the active entities registered
\* in the World that have the tag t.
C18_TagQueryExact ==
  \A t \in Tags :
    Range(GetEntitiesWithTag(t)) =
      {e \in Range(entities) : active[e] /\ HasTag(e, t)}

(***************************************************************************)
(* SpecNames: entities created, registered, removed and renamed, in the    *)
(* World that keeps the name index.                                        *)
(***************************************************************************)
\* new RenameEntityCommand(entity, newName) (CommandHistory.ts 218-223).
NewRenameEntityCommand(e, n) ==
  /\ e \in Constructed
  /\ command' = <<e, name[e], n>>
  /\ last' = Note(<<"newRename", e, Null, 0, n>>)
  /\ detachLog' = <<>>
  /\ UNCHANGED <<trace, extVars, edVars, name, tags, entitiesByName, entitiesByTag, sysVars,
                 accVars, physVars>>
  /\ UNCHANGED <<nextEntityId, active, parent, children, components, nextInst,
                 onAttachCalls, onDetachCalls, entities, rootEntities>>

\* this.entity.name = n, as execute() and undo() do.
AssignName(op, n) ==
  /\ command # NoCommand
  /\ name' = [name EXCEPT ![command[1]] = n]
  /\ last' = Note(<<op, command[1], Null, 0, n>>)
  /\ detachLog' = <<>>
  /\ UNCHANGED <<trace, extVars, edVars, tags, entitiesByName, entitiesByTag, command, sysVars,
                 accVars, physVars>>
  /\ UNCHANGED <<nextEntityId, active, parent, children, components, nextInst,
                 onAttachCalls, onDetachCalls, entities, rootEntities>>

\* RenameEntityCommand.execute / undo (CommandHistory.ts 225-231).
RenameExecute == AssignName("execute", command[3])
RenameUndo == AssignName("undo", command[2])

\* The first element of s within keep (Null when none).
FirstIn(s, keep) ==
  IF Filter(s, keep) = <<>> THEN Null ELSE Head(Filter(s, keep))
\* World.getEntityByName of the World that keeps the name index.
GetEntityByName(n) == FirstIn(entitiesByName[n], {e \in Ent : active[e]})

\* The entities that are renamed and the names they are given.
Renamed == {0, 1}
NewNames == {"Target", DefaultName(0)}

InitNames == InitEcs /\ InitRest /\ InitLast({})
NextNames ==
  \/ CreateEntity
  \/ \E n \in NewNames : CreateEntityNamed(n)
  \/ \E e \in Ent : AddEntity(e)
  \/ \E e \in Ent : RemoveEntity(e)
  \/ \E e \in Renamed, n \in NewNames : NewRenameEntityCommand(e, n)
  \/ RenameExecute
  \/ RenameUndo
SpecNames == InitNames /\ [][NextNames]_vars

\* C19: getEntityByName(n) returns an active registered entity named n
\* whenever there is one, and never an entity with another name or a destroyed
\* one.
C19_NameQuerySound ==
  \A n \in Names :
    /\ (\E e \in Range(entities) : active[e] /\ name[e] = n) =>
         /\ GetEntityByName(n) \in Range(entities)
         /\ active[GetEntityByName(n)]
         /\ name[GetEntityByName(n)] = n
    /\ GetEntityByName(n) # Null =>
         /\ active[GetEntityByName(n)]
         /\ name[GetEntityByName(n)] = n

(***************************************************************************)
(* SpecTick: ticks of a SystemManager whose systems act on the manager     *)
(* from within their update methods.                                       *)
(***************************************************************************)
\* What the update method of a system does when it is called: nothing, the
\* assignment target.enabled = false, or removeSystem of the target's class.
Idle == <<"nothing", 0>>
Scripts ==
  {Idle} \cup {<<"disable", s>> : s \in Systems} \cup {<<"remove", s>> : s \in Systems}

\* The manager's fields and the calls made so far in a tick.
TickState ==
  [systems |-> systems, systemsByType |-> systemsByType, sysEnabled |-> sysEnabled,
   inserted |-> inserted, callLog |-> <<>>, physics |-> FALSE]

\* removeSystem(class) called from within a tick (System.ts 58-69).
RemoveDuring(st, class, system) ==
  IF system # 0
  THEN [st EXCEPT !.callLog = Append(@, <<"onStop", system, "system">>),
                  !.systems = Filter(@, Systems \ {system}),
                  !.systemsByType[class] = 0,
                  !.inserted = Filter(@, Systems \ {system})]
  ELSE st

\* The body of system.update.
RunScript(st, script) ==
  CASE script[1] = "disable" -> [st EXCEPT !.sysEnabled[script[2]] = FALSE]
    [] script[1] = "remove" ->
         RemoveDuring(st, SysClass(script[2]), st.systemsByType[SysClass(script[2])])
    [] OTHER -> st

\* system.update(deltaTime) called by the manager; n is the number of passes
\* PhysicsSystem.update runs.
CallUpdate(st, s, script, n) ==
  RunScript([st EXCEPT !.callLog = @ \o <<(<<"update", s, "manager">>)>> \o
                                     (IF SysClass(s) = "PhysicsSystem"
                                      THEN SelfCalls(s, n) ELSE <<>>),
                       !.physics = @ \/ SysClass(s) = "PhysicsSystem"],
            script)

\* if (system.enabled) system.update(deltaTime) (System.ts 77-79).
CallIfEnabled(st, s, script, n) ==
  IF st.sysEnabled[s] THEN CallUpdate(st, s, script, n) ELSE st

\* for (const system of this.systems): the loop runs over the array that the
\* field held when the loop began.
RECURSIVE UpdateLoop(_, _, _, _)
UpdateLoop(list, st, does, n) ==
  IF list = <<>> THEN st
  ELSE UpdateLoop(Tail(list), CallIfEnabled(st, Head(list), does[Head(list)], n),
                  does, n)

\* The system a script acts on (0 when none).
Target(script) == script[2]

\* World.update(dt) -> SystemManager.update(dt) with the update methods
\* acting as `does` tells.
ScriptedUpdate(dt, does) ==
  /\ dt \in Deltas
  /\ elapsed + dt <= MaxElapsed
  /\ \E st \in {UpdateLoop(systems, TickState, does,
                           Accumulate(accumulator, dt, fixedTimeStep)[2])} :
       /\ systems' = st.systems
       /\ systemsByType' = st.systemsByType
       /\ sysEnabled' = st.sysEnabled
       /\ inserted' = st.inserted
       /\ callLog' = st.callLog
       /\ IF st.physics
          THEN PhysicsUpdateFields(dt)
          ELSE UNCHANGED <<accVars, physVars>>
  /\ last' = Note(<<"update", dt, does, 0, "">>)
  /\ UNCHANGED <<trace, extVars, edVars, idxVars, ecsVars>>

\* One system of the tick acts, the others do nothing.
OneActs(a, script) == [s \in Systems |-> IF s = a THEN script ELSE Idle]

\* The systems of the ticks: a CustomA (priority 0), the PhysicsSystem (100)
\* and the RenderSystem (1000); and what their update methods may do.
Actors == {1, 3, 4}
ActorScripts == {sc \in Scripts : sc = Idle \/ Target(sc) \in Actors}

InitTick == InitEcs /\ InitRest /\ InitLast({"update"})
NextTick ==
  \/ \E s \in Actors : AddSystem(s)
  \/ \E s \in Actors : RemoveSystem(SysClass(s))
  \/ \E s \in Actors : SetEnabled(s, TRUE)
  \/ \E a \in Actors, script \in ActorScripts :
       ScriptedUpdate(DefaultFixedTimeStep, OneActs(a, script))
SpecTick == InitTick /\ [][NextTick]_vars

\* Whether system s received the manager's update call in the latest tick.
Updated(log, s) == <<"update", s, "manager">> \in Range(log)

\* C20: a system that is registered and enabled when a tick of update begins
\* receives update in that tick, also when systems of lower priority value
\* disable or remove it during the tick.
C20_TickStep ==
  LET does == last'[3] IN
    last'[1] = "update" =>
      \A s \in Range(systems) :
        (/\ sysEnabled[s]
         /\ \A x \in Range(systems) :
              (Target(does[x]) = s /\ x # s) => Priority(x) < Priority(s))
        => Updated(callLog', s)
C20_EnabledAtStartRuns == [][C20_TickStep]_vars

(***************************************************************************)
(* The parent relation as a graph.                                         *)
(***************************************************************************)
\* The entities reached from e by following parent at most n times.
RECURSIVE AncestorsUpTo(_, _)
AncestorsUpTo(e, n) ==
  IF n = 0 \/ parent[e] = Null THEN {}
  ELSE {parent[e]} \cup AncestorsUpTo(parent[e], n - 1)
Ancestors(e) == AncestorsUpTo(e, NumEntities)

\* Entity.getRoot (Entity.ts 90-96): the loop `while (current.parent)` run
\* for at most n iterations; Null when it has not ended by then.
RECURSIVE GetRootUpTo(_, _)
GetRootUpTo(current, n) ==
  IF parent[current] = Null THEN current
  ELSE IF n = 0 THEN Null
  ELSE GetRootUpTo(parent[current], n - 1)

\* C28: no sequence of addChild calls makes an entity its own ancestor, so
\* that getRoot ends on every entity.
C28_ParentsAcyclic ==
  \A e \in Constructed :
    /\ e \notin Ancestors(e)
    /\ GetRootUpTo(e, NumEntities) # Null

(***************************************************************************)
(* SpecRemove: entities created in the World, nested and removed.          *)
(***************************************************************************)
\* World.getEntity (World.ts 51-53): Null stands for undefined.
GetEntity(id) == IF id \in Range(entities) THEN id ELSE Null
\* getStats().entities (World.ts 138-149): this.entities.size.
StatsEntities == Len(entities)

InitRemove == InitEcs /\ InitRest /\ InitLast({"removeEntity"})
NextRemove ==
  \/ CreateEntity
  \/ \E p \in Ent, c \in Ent : AddChild(p, c)
  \/ \E p \in Ent, c \in Ent : RemoveChild(p, c)
  \/ \E e \in Ent : RemoveEntity(e)
SpecRemove == InitRemove /\ [][NextRemove]_vars

\* C30: when World.removeEntity(e) returns, getEntity(id) is undefined for e
\* and for every former descendant of e, getStats().entities has dropped by
\* the number of them the World held, and the entity map holds no destroyed
\* entity.
C30_RemoveStep ==
  LET e == last'[2]
      gone == {e} \cup Descendants(children, e)
  IN (last'[1] = "removeEntity" /\ last'[4] = 0) =>
       /\ \A x \in gone : GetEntity(x)' = Null
       /\ StatsEntities' = StatsEntities - Cardinality(gone \cap Range(entities))
       /\ \A x \in Range(entities') : active'[x]
C30_RemoveDropsSubtree == [][C30_RemoveStep]_vars

(***************************************************************************)
(* SpecColliders: scenes whose bodies carry one or two colliders, under    *)
(* impulses and passes of PhysicsSystem.fixedUpdate.                       *)
(***************************************************************************)
\* A scene of NumEntities registered entities, each with a Transform and a
\* RigidBody; bodies[e] and positions[e] are the choices for entity e.
InitSceneWith(bodies, positions) ==
  /\ nextEntityId = NumEntities
  /\ active = [e \in Ent |-> TRUE]
  /\ parent = [e \in Ent |-> Null]
  /\ children = [e \in Ent |-> <<>>]
  /\ components = [e \in Ent |-> << <<"Transform", 2 * e + 1>>,
                                    <<"RigidBody", 2 * e + 2>> >>]
  /\ nextInst = 2 * NumEntities
  /\ onAttachCalls = [i \in 1 .. (2 * NumEntities) |-> 1]
  /\ onDetachCalls = [i \in 1 .. (2 * NumEntities) |-> 0]
  /\ detachLog = <<>>
  /\ entities = [i \in 1 .. NumEntities |-> i - 1]
  /\ InitIndex(entities)
  /\ InitExt
  /\ InitEd
  /\ rootEntities = [i \in 1 .. NumEntities |-> i - 1]
  /\ collisionCallbacks = <<>>
  /\ rigidBody \in {f \in [Ent -> UNION {bodies[e] : e \in Ent}] :
                      \A e \in Ent : f[e] \in bodies[e]}
  /\ transform \in {f \in [Ent -> {[NewTransform EXCEPT !.position = p] :
                                     p \in UNION {positions[e] : e \in Ent}}] :
                      \A e \in Ent : f[e].position \in positions[e]}
  /\ collisionLog = <<>>
  /\ preCollision = [rb |-> rigidBody, tf |-> transform]
  /\ physOps = 0

\* A solid sphere with a second, larger collider that is a trigger.
SensorSphere == AddCollider(DynamicSphere, SphereCollider(<<2, 1>>, TRUE))
StaticSensorSphere == AddCollider(StaticSphere, SphereCollider(<<2, 1>>, TRUE))

ColliderBodies ==
  [e \in Ent |->
     CASE e = 0 -> {StaticSphere, DynamicSphere, SensorSphere}
       [] e = 1 -> {StaticSphere, DynamicSphere, TriggerSphere, StaticSensorSphere}
       [] OTHER -> {DynamicSphere}]
ColliderPositions ==
  [e \in Ent |->
     CASE e = 0 -> {Zero}
       [] e = 1 -> {<<Half, R0, R0>>}
       [] OTHER -> {<<RNeg(Half), R0, R0>>, <<<<5, 1>>, R0, R0>>}]

InitColliders ==
  /\ InitSceneWith(ColliderBodies, ColliderPositions)
  /\ InitSys
  /\ InitAcc({DefaultFixedTimeStep})
  /\ InitLast({"physicsFixedUpdate"})
NextColliders ==
  \/ \E e \in Ent, f \in Forces : AddForce(e, f, "impulse")
  \/ \E dt \in StepSizes : PhysicsFixedUpdate(dt)
  \/ OnCollision
SpecColliders == InitColliders /\ [][NextColliders]_vars

\* Whether the handling of the pair of record r left both bodies where and
\* as they were.  A resolution that is not skipped moves a body that is not
\* static by its share of normal * depth, which is not zero when the
\* centres of the two spheres differ.
Skipped(r) ==
  /\ r.posA2 = r.posA /\ r.posB2 = r.posB
  /\ r.velA2 = r.velA /\ r.velB2 = r.velB

SetAngularVelocity(b, angularVelocity) ==
  [b EXCEPT !.angularVelocity = angularVelocity]

\* RigidBody.clone: a new body of the same type with the public fields
\* copied; its velocities, forces and torques are those of a new body.
CloneBody(b) ==
  [NewRigidBody(b.bodyType) EXCEPT
     !.mass = b.mass, !.drag = b.drag, !.angularDrag = b.angularDrag,
     !.useGravity = b.useGravity, !.isKinematic = b.isKinematic,
     !.freezeRotation = b.freezeRotation, !.freezePosition = b.freezePosition,
     !.colliders = b.colliders, !.constraints = b.constraints]

\* RigidBody.deserialize: data.present names the fields that data has.
Given(data, field, old) == IF field \in data.present THEN data[field] ELSE old
DeserializeBody(b, data) ==
  [b EXCEPT
     !.bodyType = Given(data, "bodyType", @),
     !.mass = Given(data, "mass", @),
     !.drag = Given(data, "drag", @),
     !.angularDrag = Given(data, "angularDrag", @),
     !.useGravity = Given(data, "useGravity", @),
     !.isKinematic = Given(data, "isKinematic", @),
     !.freezeRotation = Given(data, "freezeRotation", @),
     !.freezePosition = Given(data, "freezePosition", @),
     !.colliders = Given(data, "colliders", @),
     !.constraints = Given(data, "constraints", @)]
\* The data of a body as serialize() writes it, with the named fields only.
DataOf(b, fields) ==
  [present |-> fields, bodyType |-> b.bodyType, mass |-> b.mass, drag |-> b.drag,
   angularDrag |-> b.angularDrag, useGravity |-> b.useGravity,
   isKinematic |-> b.isKinematic, freezeRotation |-> b.freezeRotation,
   freezePosition |-> b.freezePosition, colliders |-> b.colliders,
   constraints |-> b.constraints]

\* A call on the body of entity e that replaces it by `body`.
BodyCall(e, op, body) ==
  /\ HasBody(e)
  /\ physOps < MaxOps
  /\ physOps' = physOps + 1
  /\ rigidBody' = [rigidBody EXCEPT ![e] = body]
  /\ last' = Note(<<op, e, Null, 0, "">>)
  /\ UNCHANGED <<transform, collisionCallbacks, collisionLog, preCollision>>
  /\ UNCHANGED <<trace, extVars, edVars, idxVars, ecsVars, sysVars, accVars>>

CallSetVelocity(e, v) == BodyCall(e, "setVelocity", SetVelocity(rigidBody[e], v))
CallSetAngularVelocity(e, w) ==
  BodyCall(e, "setAngularVelocity", SetAngularVelocity(rigidBody[e], w))
\* body.bodyType = type and body.mass = mass: both fields are public.
AssignBodyType(e, type) ==
  BodyCall(e, "bodyType", [rigidBody[e] EXCEPT !.bodyType = type])
AssignMass(e, mass) == BodyCall(e, "mass", [rigidBody[e] EXCEPT !.mass = mass])
CallDeserialize(e, data) ==
  BodyCall(e, "deserialize", DeserializeBody(rigidBody[e], data))
\* target's body becomes a clone of e's.
CallClone(e, target) == BodyCall(target, "clone", CloneBody(rigidBody[e]))

BodyMasses == {R0, R1}
BodyData ==
  {DataOf(StaticSphere, {"bodyType"}), DataOf(DynamicBox, {"mass", "colliders"})}
PublicBodies ==
  [e \in Ent |->
     CASE e = 0 -> {StaticSphere, DynamicSphere}
       [] e = 1 -> {DynamicSphere, FallingSphere}
       [] OTHER -> {DynamicSphere}]

InitBody ==
  /\ InitSceneWith(PublicBodies, ColliderPositions)
  /\ InitSys
  /\ InitAcc({DefaultFixedTimeStep})
  /\ InitLast({})
NextBody ==
  \/ \E e \in Ent, v \in Forces : CallSetVelocity(e, v)
  \/ \E e \in Ent, w \in Torques : CallSetAngularVelocity(e, w)
  \/ \E e \in Ent, f \in Forces, mode \in ForceModes : AddForce(e, f, mode)
  \/ \E e \in Ent, t \in Torques, mode \in TorqueModes : AddTorque(e, t, mode)
  \/ \E e \in Ent, type \in BodyTypes : AssignBodyType(e, type)
  \/ \E e \in Ent, mass \in BodyMasses : AssignMass(e, mass)
  \/ \E e \in Ent, data \in BodyData : CallDeserialize(e, data)
  \/ \E e \in Ent, target \in Ent : CallClone(e, target)
  \/ \E dt \in StepSizes : PhysicsFixedUpdate(dt)
SpecBody == InitBody /\ [][NextBody]_vars

\* C23: in every state reached through the public interface of RigidBody a
\* static body has mass 0 and zero velocity.
C23_StaticMasslessAtRest ==
  \A e \in Ent :
    rigidBody[e].bodyType = "static" =>
      /\ rigidBody[e].mass = R0
      /\ rigidBody[e].velocity = Zero

\* Whether every coordinate of v is a finite number.
VIsFinite(v) == \A a \in Axes : IsFinite(v[a])

\* C25: whatever the masses of the bodies, zero included, addForce,
\* RigidBody.fixedUpdate and the resolution of collisions leave every
\* velocity and every position finite.
C25_FiniteWithoutMass ==
  \A e \in Ent :
    /\ VIsFinite(rigidBody[e].velocity)
    /\ VIsFinite(transform[e].position)

(***************************************************************************)
(* SpecRay: PhysicsSystem.raycast on scenes of spheres and boxes.          *)
(***************************************************************************)
Infinity == <<1, 0>>
NoHit ==
  [hit |-> FALSE, point |-> Zero, normal |-> Zero, distance |-> R0,
   entity |-> Null]

\* raycastCollider, the sphere branch after the discriminant was found not
\* negative: the root with the minus sign is tried, and no other.
SphereHit(origin, direction, pos, a, b, discriminant, maxDistance) ==
  LET t == RDiv(RSub(RNeg(b), RSqrt(discriminant)), RMul(<<2, 1>>, a))
      point == VAdd(origin, VScale(direction, t))
  IN IF RLe(R0, t) /\ RLe(t, maxDistance)
     THEN [hit |-> TRUE, point |-> point,
           normal |-> VNormalize(VSub(point, pos)), distance |-> t,
           entity |-> Null]
     ELSE NoHit

\* PhysicsSystem.raycastCollider.
RaycastCollider(origin, direction, t, collider, maxDistance) ==
  LET pos == VAdd(t.position, collider.offset)
      oc == VSub(origin, pos)
      a == VDot(direction, direction)
      b == RMul(<<2, 1>>, VDot(oc, direction))
      c == RSub(VDot(oc, oc), RMul(RadiusOf(collider), RadiusOf(collider)))
      discriminant == RSub(RMul(b, b), RMul(RMul(<<4, 1>>, a), c))
  IN IF collider.shape = "sphere" /\ RLe(R0, discriminant)
     THEN SphereHit(origin, direction, pos, a, b, discriminant, maxDistance)
     ELSE NoHit

\* The inner loop of raycast over the colliders of entity e, from the i-th.
RECURSIVE RaycastColliders(_, _, _, _, _, _)
RaycastColliders(closestHit, e, i, origin, direction, maxDistance) ==
  IF i > Len(rigidBody[e].colliders) THEN closestHit
  ELSE LET hit == RaycastCollider(origin, direction, transform[e],
                                  rigidBody[e].colliders[i], maxDistance)
       IN RaycastColliders(
            IF hit.hit /\ (~closestHit.hit \/ RLt(hit.distance, closestHit.distance))
            THEN [hit EXCEPT !.entity = e]
            ELSE closestHit,
            e, i + 1, origin, direction, maxDistance)

\* The outer loop of raycast over the entities.
RECURSIVE RaycastEntities(_, _, _, _, _)
RaycastEntities(closestHit, list, origin, direction, maxDistance) ==
  IF list = <<>> THEN closestHit
  ELSE RaycastEntities(
         RaycastColliders(closestHit, Head(list), 1, origin, direction, maxDistance),
         Tail(list), origin, direction, maxDistance)

\* PhysicsSystem.raycast: the hit returned, NoHit for null.
RaycastResult(origin, direction, maxDistance) ==
  RaycastEntities(NoHit, GetEntitiesWithComponents({"RigidBody", "Transform"}),
                  origin, direction, maxDistance)

Raycast(origin, direction, maxDistance) ==
  /\ last' = Note(<<"raycast", <<origin, direction, maxDistance>>, Null,
                    RaycastResult(origin, direction, maxDistance), "">>)
  /\ UNCHANGED <<trace, extVars, edVars, idxVars, ecsVars, sysVars, accVars, physVars>>

\* The scenes: a sphere at the origin, a box and a second sphere on the z
\* axis or aside.
RayRadii == {R0, R1, <<2, 1>>, <<3, 1>>}
RayBodies ==
  [e \in Ent |->
     CASE e = 0 -> {WithCollider("dynamic", R1, FALSE, SphereCollider(r, FALSE)) :
                      r \in RayRadii}
       [] e = 1 -> {StaticBox}
       [] OTHER -> {StaticSphere, SensorSphere}]
RayPositions ==
  [e \in Ent |->
     CASE e = 0 -> {Zero}
       [] e = 1 -> {<<R0, R0, <<0 - 5, 1>> >>}
       [] OTHER -> {<<R0, R0, <<6, 1>> >>, <<<<8, 1>>, R0, R0>>}]
RayOrigins ==
  {<<R0, R0, <<0 - 10, 1>> >>, Zero, <<R0, R0, Half>>, <<R0, R0, <<10, 1>> >>}
RayDirections == {<<R0, R0, R1>>, <<R0, R0, RNeg(R1)>>, <<R1, R0, R0>>}
RayLengths == {Infinity, <<8, 1>>, R1}

InitRay ==
  /\ InitSceneWith(RayBodies, RayPositions)
  /\ InitSys
  /\ InitAcc({DefaultFixedTimeStep})
  /\ InitLast({"raycast"})
NextRay ==
  \E origin \in RayOrigins, direction \in RayDirections, maxDistance \in RayLengths :
    Raycast(origin, direction, maxDistance)
SpecRay == InitRay /\ [][NextRay]_vars

\* The roots of the intersection of the ray with the sphere (pos, radius)
\* that are not negative and at most maxDistance.
RootsWithin(origin, direction, pos, radius, maxDistance) ==
  LET oc == VSub(origin, pos)
      a == VDot(direction, direction)
      b == RMul(<<2, 1>>, VDot(oc, direction))
      c == RSub(VDot(oc, oc), RMul(radius, radius))
      discriminant == RSub(RMul(b, b), RMul(RMul(<<4, 1>>, a), c))
  IN IF RLt(discriminant, R0) THEN {}
     ELSE {t \in {RDiv(RSub(RNeg(b), RSqrt(discriminant)), RMul(<<2, 1>>, a)),
                  RDiv(RAdd(RNeg(b), RSqrt(discriminant)), RMul(<<2, 1>>, a))} :
             RLe(R0, t) /\ RLe(t, maxDistance)}
\* The sphere colliders of the scene, as <<entity, index>>.
Spheres ==
  {s \in Ent \X (1 .. 2) :
     /\ s[2] <= Len(rigidBody[s[1]].colliders)
     /\ rigidBody[s[1]].colliders[s[2]].shape = "sphere"}
RootsOf(s, query) ==
  RootsWithin(query[1], query[2],
              VAdd(transform[s[1]].position, rigidBody[s[1]].colliders[s[2]].offset),
              RadiusOf(rigidBody[s[1]].colliders[s[2]]), query[3])

\* C24: a raycast reports the nearest root of a sphere that is not negative
\* and at most maxDistance, with the normal from the centre of that sphere
\* to the hit point, and no hit when there is no such root; so a ray that
\* starts inside a sphere hits it at the larger root.
C24_RaycastNearestRoot ==
  last[1] = "raycast" =>
    LET query == last[2]
        result == last[4]
        roots == UNION {RootsOf(s, query) : s \in Spheres}
    IN /\ result.hit <=> roots # {}
       /\ result.hit =>
            /\ result.distance \in roots
            /\ \A t \in roots : RLe(result.distance, t)
            /\ result.point = VAdd(query[1], VScale(query[2], result.distance))
            /\ \E s \in Spheres :
                 /\ s[1] = result.entity
                 /\ result.distance \in RootsOf(s, query)
                 /\ result.normal =
                      VNormalize(VSub(result.point,
                                      VAdd(transform[s[1]].position,
                                           rigidBody[s[1]].colliders[s[2]].offset)))

(***************************************************************************)
(* ScriptComponent and HotReload (scripting/).  A source text is one of a  *)
(* few strings; those of BrokenCode do not compile.                        *)
(***************************************************************************)
SourceCodes == {"v1", "v2", "broken"}
BrokenCode == {"broken"}
ScriptNames == {"EnemyAI", "Player"}

\* ScriptComponent.compile.
Compile(sc) ==
  IF sc.sourceCode = "" THEN [sc EXCEPT !.compiled = FALSE]
  ELSE IF sc.sourceCode \in BrokenCode
  THEN [sc EXCEPT !.error = "SyntaxError", !.compiled = FALSE]
  ELSE [sc EXCEPT !.compiled = TRUE, !.error = "", !.startCalled = FALSE]
\* new ScriptComponent(entity, scriptName, sourceCode).
NewScriptComponent(scriptName, sourceCode) ==
  Compile([NoScript EXCEPT !.scriptName = scriptName, !.sourceCode = sourceCode])
\* ScriptComponent.setSourceCode.
SetSourceCode(sc, code) ==
  Compile([sc EXCEPT !.sourceCode = code, !.error = "", !.startCalled = FALSE])

\* The state that HotReload works on: itself (hr) and the ScriptComponents
\* by entity (sc); ok is what the latest reloadScript returned.
HotState == [hr |-> hotReload, sc |-> scriptComponent, ok |-> TRUE]
\* watchedScripts.has / get: the position of the entry, 0 for none.
WatchIndex(hr, scriptName) ==
  IF \E i \in 1 .. Len(hr.watchedScripts) : hr.watchedScripts[i].scriptName = scriptName
  THEN CHOOSE i \in 1 .. Len(hr.watchedScripts) :
         hr.watchedScripts[i].scriptName = scriptName
  ELSE 0
\* HotReload.watch (HotReload.ts 107-117).
WatchH(st, scriptName, e) ==
  IF WatchIndex(st.hr, scriptName) = 0
  THEN [st EXCEPT !.hr.watchedScripts =
          Append(@, [scriptName |-> scriptName,
                     lastContent |-> st.sc[e].sourceCode,
                     component |-> e])]
  ELSE st
\* HotReload.unwatch (HotReload.ts 122-126).
UnwatchH(st, scriptName) ==
  IF WatchIndex(st.hr, scriptName) = 0 THEN st
  ELSE [st EXCEPT !.hr.watchedScripts =
          Splice1(@, WatchIndex(st.hr, scriptName))]

\* reloadScript from the try block on, for the entry at position i: the
\* watched component gets the code; the entry is updated when it compiled.
Recompile(st, i, newCode) ==
  LET e == st.hr.watchedScripts[i].component
      reloaded == SetSourceCode(st.sc[e], newCode)
  IN IF reloaded.error # ""
     THEN [st EXCEPT !.sc[e] = reloaded, !.hr.status = "error", !.ok = FALSE]
     ELSE [st EXCEPT !.sc[e] = reloaded,
                     !.hr.watchedScripts[i].lastContent = newCode,
                     !.hr.status = "watching", !.ok = TRUE]
\* HotReload.reloadScript (HotReload.ts 131-203).
ReloadScriptH(st, scriptName, newCode) ==
  LET i == WatchIndex(st.hr, scriptName) IN
  IF i = 0 THEN [st EXCEPT !.ok = FALSE]
  ELSE IF st.hr.watchedScripts[i].lastContent = newCode THEN [st EXCEPT !.ok = TRUE]
  ELSE Recompile(st, i, newCode)

\* The loop of reloadAllScripts over the entities (HotReload.ts 216-231);
\* an entity holds at most one ScriptComponent.  reloadScript contains no
\* await, so each call has run to its end when the next one is made.
RECURSIVE ReloadEach(_, _, _, _)
ReloadEach(st, list, scriptName, newCode) ==
  IF list = <<>> THEN st
  ELSE IF /\ HasComponent(Head(list), "ScriptComponent")
          /\ st.sc[Head(list)].scriptName = scriptName
  THEN ReloadEach(ReloadScriptH(WatchH(st, scriptName, Head(list)),
                                scriptName, newCode),
                  Tail(list), scriptName, newCode)
  ELSE ReloadEach(st, Tail(list), scriptName, newCode)
\* HotReload.reloadAllScripts (HotReload.ts 208-234), the World initialized.
ReloadAllScriptsH(st, scriptName, newCode) ==
  ReloadEach(st, GetEntities, scriptName, newCode)

SetHotState(st, call) ==
  /\ hotReload' = st.hr
  /\ scriptComponent' = st.sc
  /\ last' = Note(call)
  /\ UNCHANGED <<trace, componentEntity, edVars, idxVars, ecsVars, sysVars, accVars,
                 physVars>>

HasScript(e) == e \in Range(entities) /\ HasComponent(e, "ScriptComponent")
Watch(scriptName, e) ==
  /\ HasScript(e)
  /\ SetHotState(WatchH(HotState, scriptName, e), <<"watch", scriptName, e, 0, "">>)
Unwatch(scriptName) ==
  SetHotState(UnwatchH(HotState, scriptName), <<"unwatch", scriptName, Null, 0, "">>)
ReloadScript(scriptName, newCode) ==
  SetHotState(ReloadScriptH(HotState, scriptName, newCode),
              <<"reloadScript", scriptName, newCode, 0, "">>)
ReloadAllScripts(scriptName, newCode) ==
  SetHotState(ReloadAllScriptsH(HotState, scriptName, newCode),
              <<"reloadAllScripts", scriptName, newCode, 0, "">>)

(***************************************************************************)
(* SpecHot: a World whose entities each hold a ScriptComponent, and a      *)
(* HotReload initialized with it.                                          *)
(***************************************************************************)
InitHot ==
  /\ nextEntityId = NumEntities
  /\ active = [e \in Ent |-> TRUE]
  /\ parent = [e \in Ent |-> Null]
  /\ children = [e \in Ent |-> <<>>]
  /\ components = [e \in Ent |-> <<(<<"ScriptComponent", e + 1>>)>>]
  /\ nextInst = NumEntities
  /\ onAttachCalls = [i \in 1 .. NumEntities |-> 1]
  /\ onDetachCalls = [i \in 1 .. NumEntities |-> 0]
  /\ detachLog = <<>>
  /\ entities = [i \in 1 .. NumEntities |-> i - 1]
  /\ InitIndex(entities)
  /\ rootEntities = [i \in 1 .. NumEntities |-> i - 1]
  /\ componentEntity = [i \in 1 .. NumEntities |-> i - 1]
  /\ scriptComponent \in
       {f \in [Ent -> {NewScriptComponent(n, "v1") : n \in ScriptNames}] :
          f[NumEntities - 1].scriptName = "Player"}
  /\ hotReload = [NewHotReload EXCEPT !.status = "watching"]
  /\ InitEd
  /\ InitRest
  /\ InitLast({"reloadAllScripts"})
NextHot ==
  \/ \E e \in Ent : Watch(scriptComponent[e].scriptName, e)
  \/ \E n \in ScriptNames : Unwatch(n)
  \/ \E code \in SourceCodes : ReloadScript("EnemyAI", code)
  \/ \E n \in ScriptNames, code \in SourceCodes : ReloadAllScripts(n, code)
SpecHot == InitHot /\ [][NextHot]_vars

\* C27: after reloadAllScripts(name, code), every ScriptComponent of an
\* active entity of the World whose scriptName is name has the source code
\* `code`, whether it is the instance of the watch table or not.
C27_AllInstancesReloaded ==
  last[1] = "reloadAllScripts" =>
    \A e \in Range(GetEntities) :
      (HasScript(e) /\ scriptComponent[e].scriptName = last[2]) =>
        scriptComponent[e].sourceCode = last[3]

(***************************************************************************)
(* Entity.clone (Entity.ts 125-149).  The heap of the entities and their   *)
(* components: clone constructs entities and component instances, so the   *)
(* heap of SpecClone has room for MaxClones entities beyond the first      *)
(* NumEntities and for their components.                                   *)
(***************************************************************************)
MaxClones == 3
CloneEnt == 0 .. (NumEntities + MaxClones - 1)
CloneInst == 1 .. (3 * (NumEntities + MaxClones))

CloneHeap ==
  [nextEntityId |-> nextEntityId, nextInst |-> nextInst, name |-> name,
   active |-> active, tags |-> tags, parent |-> parent, children |-> children,
   components |-> components, componentEntity |-> componentEntity,
   transform |-> transform, rigidBody |-> rigidBody,
   scriptComponent |-> scriptComponent, thrown |-> FALSE, ret |-> Null]

\* Transform.clone (core/Transform.ts): a new Transform with the position,
\* rotation, quaternion and scale copied.
CloneTransform(t) ==
  [NewTransform EXCEPT !.position = t.position, !.rotation = t.rotation,
                       !.quaternion = t.quaternion, !.scale = t.scale]
\* ScriptComponent.clone.
CloneScript(sc) ==
  [NewScriptComponent(sc.scriptName, sc.sourceCode) EXCEPT !.variables = sc.variables]

\* component.clone(clone) for the component of type t of e: the state of the
\* new component, held by entity c.
CloneFields(h, e, c, t) ==
  CASE t = "Transform" -> [h EXCEPT !.transform[c] = CloneTransform(h.transform[e])]
    [] t = "RigidBody" -> [h EXCEPT !.rigidBody[c] = CloneBody(h.rigidBody[e])]
    [] t = "ScriptComponent" ->
         [h EXCEPT !.scriptComponent[c] = CloneScript(h.scriptComponent[e])]
    [] OTHER -> h
\* A component cloned with `new X(this.entity)` in place of `new X(newEntity)`.
CloneComponentOfSource(h, e, c, t) ==
  [CloneFields(h, e, c, t) EXCEPT
     !.nextInst = @ + 1,
     !.componentEntity[h.nextInst + 1] = e,
     !.components[c] = AddComponentOverwrite(@, t, h.nextInst + 1)]
\* One pass of the loop over this.components: the component of type t is
\* cloned for c and set in c's Map under its class name.
CloneComponent(h, e, c, t) ==
  [CloneFields(h, e, c, t) EXCEPT
     !.nextInst = @ + 1,
     !.componentEntity[h.nextInst + 1] = c,
     !.components[c] = AddComponentOverwrite(@, t, h.nextInst + 1)]
RECURSIVE CloneComponents(_, _, _, _)
CloneComponents(h, e, c, comps) ==
  IF comps = <<>> THEN h
  ELSE CloneComponents(CloneComponent(h, e, c, Head(comps)[1]), e, c, Tail(comps))

\* new Entity(`${this.name}_clone`) with active and the tags copied.
CloneEntity(h, e, c) ==
  [h EXCEPT !.nextEntityId = @ + 1,
            !.name[c] = h.name[e] \o "_clone",
            !.active[c] = h.active[e],
            !.tags[c] = h.tags[e]]

\* Entity.clone(deep); h.ret is the clone.  `depth` is the free call stack.
RECURSIVE CloneH(_, _, _, _)
RECURSIVE CloneChildren(_, _, _, _)
CloneH(h, e, deep, depth) ==
  IF h.thrown THEN h
  ELSE IF depth = 0 THEN [h EXCEPT !.thrown = TRUE]
  ELSE LET c == h.nextEntityId
           h1 == CloneComponents(CloneEntity(h, e, c), e, c, h.components[e])
           h2 == IF deep THEN CloneChildren(h1, c, h1.children[e], depth - 1) ELSE h1
       IN [h2 EXCEPT !.ret = c]
\* for (const child of this.children) clone.addChild(child.clone(true))
CloneChildren(h, c, list, depth) ==
  IF list = <<>> \/ h.thrown THEN h
  ELSE LET h1 == CloneH(h, Head(list), TRUE, depth)
       IN IF h1.thrown THEN h1
          ELSE CloneChildren(
                 [h1 EXCEPT !.parent = AddChildH(h1, c, h1.ret).parent,
                            !.children = AddChildH(h1, c, h1.ret).children],
                 c, Tail(list), depth)

\* The number of entities that e.clone(deep) constructs.
ClonesNeeded(e, deep) ==
  IF deep
  THEN 1 + Cardinality(DescendantsUpTo(children, e, NumEntities + MaxClones))
  ELSE 1

\* e.clone(deep), when the heap has room for the entities it constructs.
CloneInto(h, e, deep) ==
  /\ ~h.thrown
  /\ nextEntityId' = h.nextEntityId
  /\ nextInst' = h.nextInst
  /\ name' = h.name
  /\ active' = h.active
  /\ tags' = h.tags
  /\ parent' = h.parent
  /\ children' = h.children
  /\ components' = h.components
  /\ componentEntity' = h.componentEntity
  /\ transform' = h.transform
  /\ rigidBody' = h.rigidBody
  /\ scriptComponent' = h.scriptComponent
  /\ last' = Note(<<"clone", e, deep, h.ret, "">>)
Clone(e, deep) ==
  /\ e \in Constructed
  /\ nextEntityId + ClonesNeeded(e, deep) <= NumEntities + MaxClones
  /\ CloneInto(CloneH(CloneHeap, e, deep, MaxStack), e, deep)
  /\ detachLog' = <<>>
  /\ UNCHANGED <<trace, hotReload, edVars, entitiesByName, entitiesByTag, command, sysVars,
                 accVars>>
  /\ UNCHANGED <<onAttachCalls, onDetachCalls, entities, rootEntities,
                 collisionCallbacks, collisionLog, preCollision, physOps>>

\* addChild by a caller that keeps the hierarchy a forest.
AddChildInForest(p, c) ==
  /\ p # c
  /\ p \notin DescendantsUpTo(children, c, NumEntities + MaxClones)
  /\ AddChild(p, c)

(***************************************************************************)
(* SpecClone: NumEntities entities with components, tags and a hierarchy,  *)
(* and clones of them and of their clones.                                 *)
(***************************************************************************)
\* The components the first entities hold: <<type, instance>>.
CloneComponentsOf(e) ==
  CASE e = 0 -> << <<"Transform", 1>>, <<"RigidBody", 2>> >>
    [] e = 1 -> << <<"ScriptComponent", 3>>, <<"Transform", 4>> >>
    [] OTHER -> <<>>
InitClone ==
  /\ nextEntityId = NumEntities
  /\ active = [e \in CloneEnt |-> TRUE]
  /\ parent = [e \in CloneEnt |-> Null]
  /\ children = [e \in CloneEnt |-> <<>>]
  /\ components = [e \in CloneEnt |-> CloneComponentsOf(e)]
  /\ nextInst = 4
  /\ onAttachCalls = [i \in CloneInst |-> IF i <= 4 THEN 1 ELSE 0]
  /\ onDetachCalls = [i \in CloneInst |-> 0]
  /\ detachLog = <<>>
  /\ entities = <<>>
  /\ rootEntities = <<>>
  /\ name = [e \in CloneEnt |-> DefaultName(e)]
  /\ tags \in [CloneEnt -> {{}, {"light"}}]
  /\ \A e \in CloneEnt : e # 0 => tags[e] = {}
  /\ entitiesByName = [n \in Names |-> <<>>]
  /\ entitiesByTag = [t \in Tags |-> <<>>]
  /\ command = NoCommand
  /\ componentEntity = [i \in CloneInst |-> OwnerOf(i)]
  /\ scriptComponent =
       [e \in CloneEnt |-> IF e = 1 THEN NewScriptComponent("Player", "v1")
                           ELSE NoScript]
  /\ hotReload = NewHotReload
  /\ InitEd
  /\ collisionCallbacks = <<>>
  /\ rigidBody = [e \in CloneEnt |-> IF e = 0 THEN StaticSphere
                                     ELSE NewRigidBody("dynamic")]
  /\ transform = [e \in CloneEnt |->
                    [NewTransform EXCEPT !.position = <<Half, R0, R0>>]]
  /\ collisionLog = <<>>
  /\ preCollision = [rb |-> rigidBody, tf |-> transform]
  /\ physOps = 0
  /\ InitSys
  /\ InitAcc({DefaultFixedTimeStep})
  /\ InitLast({"clone"})
NextClone ==
  \/ \E p \in Ent, c \in Ent : AddChildInForest(p, c)
  \/ \E e \in Taggable : AddTag(e, "camera")
  \/ \E e \in CloneEnt, deep \in BOOLEAN : Clone(e, deep)
SpecClone == InitClone /\ [][NextClone]_vars

\* The class names of the components in a component Map.
TypesOf(comps) == {comps[k][1] : k \in 1 .. Len(comps)}

\* Whether y, after the call, is a copy of what x was before it: tags,
\* component types held by new instances that refer back to y, and, down to
\* n levels, as many children as x, in the same order, each with the parent y
\* and a copy of the corresponding child of x.
RECURSIVE CopyOf(_, _, _, _)
CopyOf(x, y, deep, n) ==
  /\ y \notin Constructed
  /\ y \in Constructed'
  /\ tags'[y] = tags[x]
  /\ TypesOf(components'[y]) = TypesOf(components[x])
  /\ Len(components'[y]) = Len(components[x])
  /\ \A k \in 1 .. Len(components'[y]) :
       /\ components'[y][k][2] > nextInst
       /\ componentEntity'[components'[y][k][2]] = y
  /\ IF deep /\ n > 0
     THEN /\ Len(children'[y]) = Len(children[x])
          /\ \A i \in 1 .. Len(children[x]) :
               /\ parent'[children'[y][i]] = y
               /\ CopyOf(children[x][i], children'[y][i], deep, n - 1)
     ELSE children'[y] = <<>>

\* C26: e.clone(deep) returns a new entity with a fresh id, no parent, the
\* tags of e and the component types of e, each cloned component referring
\* back to the clone; with deep it has a subtree of clones shaped as e's and
\* without deep no children; e and every entity that existed are unchanged.
C26_CloneStep ==
  LET e == last'[2]
      deep == last'[3]
      c == last'[4]
  IN last'[1] = "clone" =>
       /\ c = nextEntityId
       /\ parent'[c] = Null
       /\ CopyOf(e, c, deep, NumEntities + MaxClones)
       /\ \A x \in Constructed :
            /\ parent'[x] = parent[x] /\ children'[x] = children[x]
            /\ tags'[x] = tags[x] /\ components'[x] = components[x]
            /\ name'[x] = name[x] /\ active'[x] = active[x]
            /\ transform'[x] = transform[x] /\ rigidBody'[x] = rigidBody[x]
       /\ \A i \in 1 .. nextInst : componentEntity'[i] = componentEntity[i]
C26_Clone == [][C26_CloneStep]_vars

\* C26 witness: a tagged entity with two components, a child and a
\* grandchild was cloned with deep, and the clone of the child holds the
\* clones of the child's two components.
C26_Witness ==
  /\ last[1] = "clone"
  /\ last[3]
  /\ tags[last[2]] = {"light", "camera"}
  /\ Len(components[last[2]]) = 2
  /\ \E x \in Ent, y \in Ent :
       /\ children[last[2]] = <<x>> /\ children[x] = <<y>>
       /\ Len(components[x]) = 2
  /\ Len(children[last[4]]) = 1
  /\ Len(children[children[last[4]][1]]) = 1
  /\ Len(components[children[last[4]][1]]) = 2

(***************************************************************************)
(* PhysicsSystem.fixedUpdate with collision callbacks that act: a callback *)
(* may call offCollision, World.removeEntity or World.createEntity while   *)
(* the pass runs.  The state the pass works on holds, besides the bodies   *)
(* and Transforms, the entities, the World and the callback array; and in  *)
(* `events` what the pass did, in order: <<"fixedUpdate", e>> for a body   *)
(* stepped, <<"pair", a, b>> for a pair reached by the inner loop,         *)
(* <<"resolve", a, b>> and <<"callback", k>> for what followed.            *)
(***************************************************************************)
PassState ==
  [rb |-> rigidBody, tf |-> transform, log |-> collisionLog, pre |-> preCollision,
   parent |-> parent, children |-> children, active |-> active,
   components |-> components, onDetachCalls |-> onDetachCalls,
   detachLog |-> <<>>, thrown |-> FALSE,
   nextEntityId |-> nextEntityId, nextInst |-> nextInst,
   onAttachCalls |-> onAttachCalls, componentEntity |-> componentEntity,
   name |-> name, entities |-> entities, rootEntities |-> rootEntities,
   entitiesByName |-> entitiesByName, entitiesByTag |-> entitiesByTag,
   callbacks |-> collisionCallbacks, events |-> <<>>]

\* PhysicsSystem.offCollision (PhysicsSystem.ts 322-327).
OffCollisionIn(callbacks, k) ==
  IF IndexOf(callbacks, k) # 0 THEN Splice1(callbacks, IndexOf(callbacks, k))
  ELSE callbacks

\* World.removeEntity after entity.destroy() returned on the state h.
Unregister(h, e) ==
  [h EXCEPT !.entities = MapDelete(@, e),
            !.rootEntities = IF IndexOf(@, e) # 0 THEN Splice1(@, IndexOf(@, e))
                             ELSE @,
            !.entitiesByName = UnindexEntityName(@, e, h.name[e]),
            !.entitiesByTag = UnindexEntityTags(@, e, tags[e])]
\* World.removeEntity called by a callback; when destroy() throws the lines
\* after it do not run.
RemoveEntityIn(st, e) ==
  IF DestroyH(st, e, MaxStack).thrown THEN DestroyH(st, e, MaxStack)
  ELSE Unregister(DestroyH(st, e, MaxStack), e)

\* What a callback that creates a body gives it: a unit-mass sphere moving
\* along x, at the origin.
CreatedBody == SetVelocity(DynamicSphere, <<<<2, 1>>, R0, R0>>)
CreatedTransform == SetPosition(NewTransform, Zero)
\* entity.addComponent(type) on the entity c that was just created.
Attach(st, c, t) ==
  [st EXCEPT !.nextInst = @ + 1,
             !.components[c] = AddComponentMap(@, t, st.nextInst + 1),
             !.onAttachCalls[st.nextInst + 1] = @ + 1,
             !.componentEntity[st.nextInst + 1] = c]
\* world.createEntity() as entity c.
Register(st, c) ==
  [st EXCEPT !.nextEntityId = @ + 1,
             !.name[c] = DefaultName(c),
             !.entities = MapSet(@, c),
             !.rootEntities = AddEntityRoots(@, c, st.parent[c]),
             !.entitiesByName = IndexEntityName(@, c, DefaultName(c)),
             !.rb[c] = CreatedBody,
             !.tf[c] = CreatedTransform]
\* A callback that creates an entity with a Transform and a RigidBody.
CreateBodyIn(st) ==
  IF st.nextEntityId < NumEntities
  THEN Attach(Attach(Register(st, st.nextEntityId), st.nextEntityId, "Transform"),
              st.nextEntityId, "RigidBody")
  ELSE st

\* What the callbacks do when they are invoked: <<kind, argument>>.
Effects ==
  {<<"none", 0>>, <<"create", 0>>}
    \cup {<<"off", k>> : k \in 1 .. MaxCallbacks}
    \cup {<<"remove", e>> : e \in Ent}
\* Callback k is invoked for the pair logged last and acts.
Invoke(st, k, effect) ==
  LET told == [st EXCEPT !.log[Len(st.log)].notified = Append(@, k),
                         !.events = Append(@, <<"callback", k>>)] IN
  CASE effect[1] = "off" ->
         [told EXCEPT !.callbacks = OffCollisionIn(@, effect[2])]
    [] effect[1] = "remove" -> RemoveEntityIn(told, effect[2])
    [] effect[1] = "create" -> CreateBodyIn(told)
    [] OTHER -> told

\* for (const callback of this.collisionCallbacks) callback(info): the
\* iterator reads the array itself, position after position.
RECURSIVE Dispatch(_, _, _)
Dispatch(st, i, does) ==
  IF i > Len(st.callbacks) \/ st.thrown THEN st
  ELSE Dispatch(Invoke(st, st.callbacks[i], does[st.callbacks[i]]), i + 1, does)
\* The record of a colliding pair, with the callbacks registered when its
\* dispatch began and the entities that were inactive then.
PairEntry(st, resolved, entityA, entityB, collision) ==
  [pair |-> PairRecord(st, resolved, entityA, entityB, collision, <<>>),
   notified |-> <<>>,
   registered |-> st.callbacks,
   remaining |-> st.callbacks,
   gone |-> {e \in DOMAIN st.active : ~st.active[e]}]
Closed(st) == [st EXCEPT !.log[Len(st.log)].remaining = st.callbacks]
\* A pair found colliding: it is resolved, then the callbacks are invoked.
Reported(st, resolved, entityA, entityB, collision, does) ==
  Closed(Dispatch([resolved EXCEPT !.log =
                     Append(@, PairEntry(st, resolved, entityA, entityB, collision)),
                                   !.events = Append(@, <<"resolve", entityA, entityB>>)],
                  1, does))
CheckedIn(st, entityA, entityB, collision, does) ==
  IF collision.hit
  THEN Reported(st, ResolveCollision(st, entityA, entityB, collision),
                entityA, entityB, collision, does)
  ELSE st

\* The tests at the head of the inner loop, on the components the entities
\* hold at that moment.
HoldsBoth(st, e) ==
  /\ HasComponentIn(st.components[e], "Transform")
  /\ HasComponentIn(st.components[e], "RigidBody")
\* The body of the inner loop without the test of the components.
DetectPairUntested(st, entityA, entityB, does) ==
  IF st.rb[entityA].colliders = <<>> \/ st.rb[entityB].colliders = <<>>
  THEN st
  ELSE CheckedIn(st, entityA, entityB,
                 CheckCollision(st.tf[entityA], st.rb[entityA].colliders[1],
                                st.tf[entityB], st.rb[entityB].colliders[1]),
                 does)
\* The body of the inner loop of detectCollisions for the pair (A, B).
DetectPairIn(st, entityA, entityB, does) ==
  IF ~(HoldsBoth(st, entityA) /\ HoldsBoth(st, entityB)) THEN st
  ELSE IF st.rb[entityA].colliders = <<>> \/ st.rb[entityB].colliders = <<>>
  THEN st
  ELSE CheckedIn(st, entityA, entityB,
                 CheckCollision(st.tf[entityA], st.rb[entityA].colliders[1],
                                st.tf[entityB], st.rb[entityB].colliders[1]),
                 does)

\* detectCollisions over the array `list`; an exception thrown by a callback
\* ends the loops.
RECURSIVE DetectFromIn(_, _, _, _, _)
DetectFromIn(st, list, i, j, does) ==
  IF i > Len(list) \/ st.thrown THEN st
  ELSE IF j > Len(list) THEN DetectFromIn(st, list, i + 1, i + 2, does)
  ELSE DetectFromIn(DetectPairIn([st EXCEPT !.events =
                                    Append(@, <<"pair", list[i], list[j]>>)],
                                 list[i], list[j], does),
                    list, i, j + 1, does)

\* The first loop of fixedUpdate: rigidBody.fixedUpdate for each entity.
RECURSIVE StepEach(_, _, _)
StepEach(st, list, fixedDeltaTime) ==
  IF list = <<>> THEN st
  ELSE StepEach([StepBodies(st, <<Head(list)>>, fixedDeltaTime)
                   EXCEPT !.events = Append(@, <<"fixedUpdate", Head(list)>>)],
                Tail(list), fixedDeltaTime)

\* fixedUpdate with the two loops exchanged.
ActingDetectFirst(st, list, fixedDeltaTime, does) ==
  StepEach(DetectFromIn(Between(st), list, 1, 2, does), list, fixedDeltaTime)
\* PhysicsSystem.fixedUpdate with acting callbacks: the array of entities is
\* built once, before the bodies are stepped.
ActingFixedStep(st, list, fixedDeltaTime, does) ==
  DetectFromIn(Between(StepEach(st, list, fixedDeltaTime)), list, 1, 2, does)

SetPassState(st) ==
  /\ rigidBody' = st.rb
  /\ transform' = st.tf
  /\ collisionLog' = st.log
  /\ preCollision' = st.pre
  /\ parent' = st.parent
  /\ children' = st.children
  /\ active' = st.active
  /\ components' = st.components
  /\ onDetachCalls' = st.onDetachCalls
  /\ detachLog' = st.detachLog
  /\ nextEntityId' = st.nextEntityId
  /\ nextInst' = st.nextInst
  /\ onAttachCalls' = st.onAttachCalls
  /\ componentEntity' = st.componentEntity
  /\ name' = st.name
  /\ entities' = st.entities
  /\ rootEntities' = st.rootEntities
  /\ entitiesByName' = st.entitiesByName
  /\ entitiesByTag' = st.entitiesByTag
  /\ collisionCallbacks' = st.callbacks

\* PhysicsSystem.fixedUpdate called once, the callbacks acting as `does`
\* tells.
ActingFixedUpdate(fixedDeltaTime, does) ==
  /\ physOps < MaxOps
  /\ physOps' = physOps + 1
  /\ \E st \in {ActingFixedStep(PassState,
                                GetEntitiesWithComponents({"RigidBody", "Transform"}),
                                fixedDeltaTime, does)} :
       /\ SetPassState(st)
       /\ last' = Note(<<"physicsFixedUpdate", does, st.events,
                         IF st.thrown THEN 1 ELSE 0, "">>)
  /\ UNCHANGED <<trace, tags, command, scriptComponent, hotReload, edVars, sysVars, accVars>>

\* PhysicsSystem.offCollision called between passes.
OffCollision(k) ==
  /\ collisionCallbacks' = OffCollisionIn(collisionCallbacks, k)
  /\ last' = Note(<<"offCollision", k, Null, 0, "">>)
  /\ UNCHANGED <<rigidBody, transform, collisionLog, preCollision, physOps>>
  /\ UNCHANGED <<trace, extVars, edVars, idxVars, ecsVars, sysVars, accVars>>

(***************************************************************************)
(* SpecCallbacks: two or three overlapping spheres of one kind, registered  *)
(* in the World, callbacks registered and removed, and passes of           *)
(* fixedUpdate whose callbacks act.                                        *)
(***************************************************************************)
CallbackBodies == {DynamicSphere, TriggerSphere}
CallbackPositions ==
  [e \in Ent |->
     CASE e = 0 -> Zero
       [] e = 1 -> <<Half, R0, R0>>
       [] OTHER -> <<R0, Half, R0>>]
InitCallbacks ==
  /\ nextEntityId \in {NumEntities - 1, NumEntities}
  /\ active = [e \in Ent |-> TRUE]
  /\ parent = [e \in Ent |-> Null]
  /\ children = [e \in Ent |-> <<>>]
  /\ components = [e \in Ent |-> IF e < nextEntityId
                                 THEN << <<"Transform", 2 * e + 1>>,
                                         <<"RigidBody", 2 * e + 2>> >>
                                 ELSE <<>>]
  /\ nextInst = 2 * nextEntityId
  /\ onAttachCalls = [i \in 1 .. (2 * NumEntities) |-> IF i <= nextInst THEN 1 ELSE 0]
  /\ onDetachCalls = [i \in 1 .. (2 * NumEntities) |-> 0]
  /\ detachLog = <<>>
  /\ entities = [i \in 1 .. nextEntityId |-> i - 1]
  /\ InitIndex(entities)
  /\ InitExt
  /\ InitEd
  /\ rootEntities = entities
  /\ collisionCallbacks = <<>>
  /\ rigidBody \in {[e \in Ent |-> b] : b \in CallbackBodies}
  /\ transform = [e \in Ent |-> [NewTransform EXCEPT !.position = CallbackPositions[e]]]
  /\ collisionLog = <<>>
  /\ preCollision = [rb |-> rigidBody, tf |-> transform]
  /\ physOps = 0
  /\ InitSys
  /\ InitAcc({DefaultFixedTimeStep})
  /\ InitLast({"physicsFixedUpdate"})
NextCallbacks ==
  \/ OnCollision
  \/ \E k \in 1 .. MaxCallbacks : OffCollision(k)
  \/ \E does \in [1 .. MaxCallbacks -> Effects], dt \in StepSizes :
       ActingFixedUpdate(dt, does)
SpecCallbacks == InitCallbacks /\ [][NextCallbacks]_vars

\* C21: a pass of fixedUpdate whose callbacks remove and create entities
\* ends without error; it steps the bodies of the array of entities taken at
\* its start and reports pairs of that array only, in its order, so that an
\* entity created during the pass is neither stepped nor tested; and it
\* reports no pair with an entity that had been removed before the pair was
\* reached.
C21_PassStep ==
  LET list == GetEntitiesWithComponents({"RigidBody", "Transform"})
      dt == CHOOSE d \in StepSizes : TRUE
  IN last'[1] = "physicsFixedUpdate" =>
       /\ last'[4] = 0
       /\ \A e \in Range(list) :
            preCollision'.rb[e] = BodyStep(rigidBody[e], transform[e], TRUE, dt).rb
       /\ \A k \in 1 .. Len(collisionLog') :
            /\ collisionLog'[k].pair.entityA \in Range(list)
            /\ collisionLog'[k].pair.entityB \in Range(list)
            /\ IndexOf(list, collisionLog'[k].pair.entityA)
                 < IndexOf(list, collisionLog'[k].pair.entityB)
            /\ collisionLog'[k].pair.entityA \notin collisionLog'[k].gone
            /\ collisionLog'[k].pair.entityB \notin collisionLog'[k].gone
       /\ \A e \in Range(entities') \ Range(entities) :
            /\ rigidBody'[e] = CreatedBody
            /\ transform'[e] = CreatedTransform
C21_PassOverSnapshot == [][C21_PassStep]_vars

\* C21 witness: of three overlapping trigger spheres, the callback invoked
\* for the first pair removed the third, and the pass reported that pair
\* only.
C21_Witness ==
  /\ last[1] = "physicsFixedUpdate"
  /\ \A e \in Ent : rigidBody[e] = TriggerSphere
  /\ Len(collisionLog) = 1
  /\ collisionLog[1].pair.entityA = 0 /\ collisionLog[1].pair.entityB = 1
  /\ collisionLog[1].notified # <<>>
  /\ ~active[2] /\ 2 \notin Range(entities)
  /\ components[2] = <<>>

\* C29: every callback that was registered when the dispatch of a collision
\* began, and is still registered when it ends, was invoked for that
\* collision exactly once, whatever offCollision calls the callbacks made.
C29_EveryCallbackOnce ==
  last[1] = "physicsFixedUpdate" =>
    \A k \in 1 .. Len(collisionLog) :
      \A c \in Range(collisionLog[k].registered) \cap Range(collisionLog[k].remaining) :
        Count(collisionLog[k].notified, c) = 1

(***************************************************************************)
(* CommandHistory and DeleteEntityCommand (editor/CommandHistory.ts).  A   *)
(* command on the stacks is a record of its fields; `before` is not a      *)
(* field of the class: it keeps what the entity looked like when the       *)
(* command was constructed, for the properties below.                      *)
(***************************************************************************)
\* CommandHistory.maxHistorySize.
MaxHistorySize == 100
\* Commands executed in one behaviour.
MaxCommands == 2

\* What the World and the entity tell about entity e.
EntityView(e) ==
  [active |-> active[e],
   listed |-> e \in Range(GetEntities),
   types |-> [i \in 1 .. Len(components[e]) |-> components[e][i][1]],
   children |-> children[e],
   parent |-> parent[e],
   root |-> e \in Range(rootEntities)]

\* DeleteEntityCommand constructor (CommandHistory.ts 188-193).
NewDeleteEntityCommand(e) ==
  [name |-> "Delete " \o name[e], entity |-> e, parentId |-> parent[e],
   before |-> EntityView(e)]

\* World.addEntity on the state st.
AddEntityIn(st, e) ==
  [st EXCEPT !.entities = MapSet(@, e),
             !.rootEntities = AddEntityRoots(@, e, st.parent[e]),
             !.entitiesByName = IndexEntityName(@, e, st.name[e]),
             !.entitiesByTag = IndexEntityTags(@, e, tags[e])]
\* World.getEntity on the state st: Null stands for undefined.
GetEntityIn(st, id) == IF id \in Range(st.entities) THEN id ELSE Null

\* DeleteEntityCommand.execute (CommandHistory.ts 195-197).
DeleteExecute(st, cmd) == RemoveEntityIn(st, cmd.entity)
\* if (parent) parent.addChild(this.entity)
Reattach(st, cmd) ==
  IF GetEntityIn(st, cmd.parentId) # Null
  THEN AddChildH(st, GetEntityIn(st, cmd.parentId), cmd.entity)
  ELSE st
\* DeleteEntityCommand.undo (CommandHistory.ts 199-208).
DeleteUndo(st, cmd) ==
  IF cmd.parentId # Null THEN Reattach(AddEntityIn(st, cmd.entity), cmd)
  ELSE AddEntityIn(st, cmd.entity)

\* The last element of a non-empty array, and the array without it (pop).
Top(stack) == stack[Len(stack)]
Pop(stack) == SubSeq(stack, 1, Len(stack) - 1)
\* this.undoStack.push(command) and the limit of the history size.
PushLimited(stack, cmd) ==
  IF Len(stack) + 1 > MaxHistorySize THEN Tail(Append(stack, cmd))
  ELSE Append(stack, cmd)

\* CommandHistory.execute(new DeleteEntityCommand(engine, e)): an exception
\* thrown by command.execute() leaves the stacks as they were.
HistoryExecute(e) ==
  /\ e \in Range(entities)
  /\ Len(history.undoStack) + Len(history.redoStack) < MaxCommands
  /\ \E cmd \in {NewDeleteEntityCommand(e)} :
       \E st \in {DeleteExecute(PassState, cmd)} :
         /\ SetPassState(st)
         /\ history' = IF st.thrown THEN history
                       ELSE [undoStack |-> PushLimited(history.undoStack, cmd),
                             redoStack |-> <<>>]
         /\ last' = Note(<<"historyExecute", e, Null, IF st.thrown THEN 1 ELSE 0, "">>)
  /\ UNCHANGED <<trace, tags, command, scriptComponent, hotReload, sysVars, accVars,
                 physOps, pc, engine>>

\* CommandHistory.undo (CommandHistory.ts 45-53) with a command to undo.
HistoryUndo ==
  /\ history.undoStack # <<>>
  /\ \E cmd \in {Top(history.undoStack)} :
       \E st \in {DeleteUndo(PassState, cmd)} :
         /\ SetPassState(st)
         /\ history' = [undoStack |-> Pop(history.undoStack),
                        redoStack |-> Append(history.redoStack, cmd)]
         /\ last' = Note(<<"historyUndo", cmd.entity, Null, 0, "">>)
  /\ UNCHANGED <<trace, tags, command, scriptComponent, hotReload, sysVars, accVars,
                 physOps, pc, engine>>

\* CommandHistory.redo (CommandHistory.ts 55-63) with a command to redo.
HistoryRedo ==
  /\ history.redoStack # <<>>
  /\ \E cmd \in {Top(history.redoStack)} :
       \E st \in {DeleteExecute(PassState, cmd)} :
         /\ SetPassState(st)
         /\ history' = IF st.thrown THEN [history EXCEPT !.redoStack = Pop(@)]
                       ELSE [undoStack |-> Append(history.undoStack, cmd),
                             redoStack |-> Pop(history.redoStack)]
         /\ last' = Note(<<"historyRedo", cmd.entity, Null,
                           IF st.thrown THEN 1 ELSE 0, "">>)
  /\ UNCHANGED <<trace, tags, command, scriptComponent, hotReload, sysVars, accVars,
                 physOps, pc, engine>>

(***************************************************************************)
(* SpecDelete: the entities registered in the World, each with a Transform *)
(* and the first also with a RigidBody; addChild builds the hierarchy, and *)
(* delete commands are executed, undone and redone through the history.    *)
(***************************************************************************)
InitDelete ==
  /\ nextEntityId = NumEntities
  /\ active = [e \in Ent |-> TRUE]
  /\ parent = [e \in Ent |-> Null]
  /\ children = [e \in Ent |-> <<>>]
  /\ components = [e \in Ent |-> IF e = 0
                                 THEN << <<"Transform", 1>>, <<"RigidBody", 2>> >>
                                 ELSE << <<"Transform", e + 2>> >>]
  /\ nextInst = NumEntities + 1
  /\ onAttachCalls = [i \in 1 .. (NumEntities + 1) |-> 1]
  /\ onDetachCalls = [i \in 1 .. (NumEntities + 1) |-> 0]
  /\ detachLog = <<>>
  /\ entities = [i \in 1 .. NumEntities |-> i - 1]
  /\ InitIndex(entities)
  /\ InitExt
  /\ InitEd
  /\ rootEntities = entities
  /\ InitRest
  /\ InitLast({"historyExecute", "historyUndo"})
NextDelete ==
  \/ \E p, c \in Ent : p # c /\ history = NewHistory /\ AddChild(p, c)
  \/ \E e \in Ent : HistoryExecute(e)
  \/ HistoryUndo
  \/ HistoryRedo
SpecDelete == InitDelete /\ [][NextDelete]_vars

\* C31: when history.undo() follows history.execute(new
\* DeleteEntityCommand(engine, e)) for a registered entity e that had
\* components, a parent and children, e is active and listed by
\* getEntities(), and has the component types, the children and the parent
\* it had, and is a root entity exactly when it was.
C31_UndoStep ==
  (/\ last[1] = "historyExecute" /\ last[4] = 0
   /\ last'[1] = "historyUndo") =>
    \A cmd \in {Top(history'.redoStack)} :
      (/\ cmd.before.types # <<>>
       /\ cmd.before.parent # Null
       /\ cmd.before.children # <<>>) =>
        EntityView(cmd.entity)' = cmd.before
C31_DeleteUndoRestores == [][C31_UndoStep]_vars

(***************************************************************************)
(* PhysicsSystem.update step by step (PhysicsSystem.ts 33-40): the call    *)
(* enters, and then the loop alternates between its test and its body     *)
(* until the test fails.  JavaScript runs the call to completion, so a     *)
(* test or a body that can run does run.                                   *)
(***************************************************************************)
\* Passes counted in `passes`; further passes leave it at this value.
MaxPasses == 3
\* The values assigned to the public field fixedTimeStep (PhysicsSystem.ts
\* 25), in quanta.
AssignedSteps == {-1, 0, 1, 2, DefaultFixedTimeStep}

\* physics.fixedTimeStep = step, between two calls of update.
AssignFixedTimeStep(step) ==
  /\ pc = "idle"
  /\ fixedTimeStep' = step
  /\ last' = Note(<<"assignFixedTimeStep", step, Null, 0, "">>)
  /\ UNCHANGED <<accumulator, elapsed, passes, simulated, inexact, history, engine>>
  /\ UNCHANGED <<pc, trace, extVars, idxVars, ecsVars, sysVars, physVars>>

\* update(deltaTime) is called: this.accumulator += deltaTime.
UpdateEnter(dt) ==
  /\ pc = "idle"
  /\ accumulator' = Fl(accumulator + dt)
  /\ inexact' = (inexact \/ ~Representable(accumulator + dt))
  /\ pc' = "test"
  /\ last' = Note(<<"physicsUpdate", dt, Null, 0, "">>)
  /\ UNCHANGED <<fixedTimeStep, elapsed, passes, simulated, history, engine>>
  /\ UNCHANGED <<trace, extVars, idxVars, ecsVars, sysVars, physVars>>

\* while (this.accumulator >= this.fixedTimeStep): the test; when it fails
\* update returns.
LoopTest ==
  /\ pc = "test"
  /\ pc' = IF LoopGuard(accumulator, fixedTimeStep) THEN "body" ELSE "idle"
  /\ UNCHANGED <<accVars, history, engine, last>>
  /\ UNCHANGED <<trace, extVars, idxVars, ecsVars, sysVars, physVars>>

\* The body of the loop: this.fixedUpdate(this.fixedTimeStep), then
\* this.accumulator -= this.fixedTimeStep.
LoopBody ==
  /\ pc = "body"
  /\ SetPhysState(FixedStep(PhysState, Seconds(fixedTimeStep), collisionCallbacks))
  /\ accumulator' = Fl(accumulator - fixedTimeStep)
  /\ inexact' = (inexact \/ ~Representable(accumulator - fixedTimeStep))
  /\ passes' = IF passes < MaxPasses THEN passes + 1 ELSE passes
  /\ pc' = "test"
  /\ UNCHANGED <<fixedTimeStep, elapsed, simulated, history, engine, last>>
  /\ UNCHANGED <<collisionCallbacks, physOps>>
  /\ UNCHANGED <<trace, extVars, idxVars, ecsVars, sysVars>>

(***************************************************************************)
(* SpecLoop: fixedTimeStep is assigned and update is called, one call      *)
(* after the other; FairLoop adds that a call in progress goes on.         *)
(***************************************************************************)
InitLoop ==
  InitEcs /\ InitSys /\ InitAcc({DefaultFixedTimeStep}) /\ InitPhys
    /\ InitLast({"physicsUpdate"})
NextLoop ==
  \/ \E step \in AssignedSteps : AssignFixedTimeStep(step)
  \/ \E dt \in Deltas : UpdateEnter(dt)
  \/ LoopTest
  \/ LoopBody
SpecLoop == InitLoop /\ [][NextLoop]_vars
FairLoop == SpecLoop /\ WF_vars(LoopTest) /\ WF_vars(LoopBody)

\* C32: every call of PhysicsSystem.update returns, whatever value was
\* assigned to fixedTimeStep (0 and negative values included) and whatever
\* delta is passed.
C32_UpdateTerminates == (pc # "idle") ~> (pc = "idle")

(***************************************************************************)
(* The narrow phase on its own: PhysicsSystem.checkCollision applied to    *)
(* the first colliders of two bodies, in either order.                     *)
(***************************************************************************)
\* The pair of arguments checkCollision takes for one body.
NarrowArgs(e) ==
  [position |-> transform[e].position, collider |-> rigidBody[e].colliders[1]]
\* checkCollision(transformA, colliderA, transformB, colliderB), as
\* detectCollisions calls it for the pair (a, b).
NarrowPhase(a, b) ==
  /\ a # b
  /\ rigidBody[a].colliders # <<>> /\ rigidBody[b].colliders # <<>>
  /\ last' = Note(<<"checkCollision", NarrowArgs(a), NarrowArgs(b),
                    CheckCollision(transform[a], rigidBody[a].colliders[1],
                                   transform[b], rigidBody[b].colliders[1]), "">>)
  /\ UNCHANGED <<trace, extVars, edVars, idxVars, ecsVars, sysVars, accVars, physVars>>

(***************************************************************************)
(* SpecNarrow: two bodies with trigger colliders, both boxes or both       *)
(* spheres, at rest at positions of a grid that has them apart, touching,  *)
(* overlapping and coincident; a third body has no collider.  The narrow   *)
(* phase is applied, callbacks are registered and fixed steps are run.     *)
(***************************************************************************)
Resting(collider) == WithCollider("dynamic", R1, FALSE, collider)
Bare == NewRigidBody("static")
NarrowBoxes ==
  {Resting(BoxCollider(size, TRUE)) :
     size \in {<<>>, <<R1, <<2, 1>>, R1>>, <<<<2, 1>>, <<2, 1>>, <<2, 1>>>>}}
NarrowSpheres ==
  {Resting(SphereCollider(radius, TRUE)) : radius \in {R0, R1, <<1, 4>>}}
\* Where the second box is; the first is at the origin.
BoxGrid ==
  {<<x, y, z>> : x \in {R0, Half, R1, <<3, 2>>}, y \in {R0, Half, R1},
                 z \in {R0, R1}}
\* Where the second sphere is: at distances 0, 1/2, 1 and 3/2 of the origin.
SphereGrid ==
  {Zero, <<Half, R0, R0>>, <<R0, R1, R0>>, <<R0, R0, <<-3, 2>>>>,
   <<<<3, 10>>, <<2, 5>>, R0>>, <<<<-3, 5>>, R0, <<4, 5>>>>}
NarrowBodies(shapes) == [e \in Ent |-> IF e < 2 THEN shapes ELSE {Bare}]
NarrowPositions(grid) ==
  [e \in Ent |-> IF e = 1 THEN grid ELSE {Zero}]
InitNarrow ==
  /\ \/ InitSceneWith(NarrowBodies(NarrowBoxes), NarrowPositions(BoxGrid))
     \/ InitSceneWith(NarrowBodies(NarrowSpheres), NarrowPositions(SphereGrid))
  /\ InitSys
  /\ InitAcc({DefaultFixedTimeStep})
  /\ InitLast({"checkCollision", "physicsFixedUpdate"})
NextNarrow ==
  \/ \E a, b \in Ent : NarrowPhase(a, b)
  \/ OnCollision
  \/ \E dt \in StepSizes : PhysicsFixedUpdate(dt)
SpecNarrow == InitNarrow /\ [][NextNarrow]_vars

\* The faces of a box on axis i, and by how far box A would have to move
\* along the axis to leave box B.
BoxLow(arg, i) == RSub(arg.position[i], RMul(SizeOf(arg.collider)[i], Half))
BoxHigh(arg, i) == RAdd(arg.position[i], RMul(SizeOf(arg.collider)[i], Half))
AxisOverlap(A, B, i) ==
  RMin(RSub(BoxHigh(A, i), BoxLow(B, i)), RSub(BoxHigh(B, i), BoxLow(A, i)))
\* The intervals of the two boxes on axis i have a point in common.
AxisMeets(A, B, i) ==
  RLe(RMax(BoxLow(A, i), BoxLow(B, i)), RMin(BoxHigh(A, i), BoxHigh(B, i)))
BoxCall ==
  /\ last[1] = "checkCollision"
  /\ last[2].collider.shape = "box" /\ last[3].collider.shape = "box"

\* C33: for two boxes a collision is reported exactly when their intervals
\* meet on all three axes; its depth is the least of the three overlaps and
\* its normal is the unit vector of an axis whose overlap is the least, -1
\* when A's centre is below B's on that axis and +1 when it is above.
C33_BoxBoxLeastOverlap ==
  BoxCall =>
    /\ last[4].hit <=> \A i \in Axes : AxisMeets(last[2], last[3], i)
    /\ last[4].hit =>
         /\ \A i \in Axes : RLe(last[4].depth, AxisOverlap(last[2], last[3], i))
         /\ \E i \in Axes :
              /\ last[4].depth = AxisOverlap(last[2], last[3], i)
              /\ last[4].normal[i] \in {R1, RNeg(R1)}
              /\ \A j \in Axes \ {i} : last[4].normal[j] = R0
              /\ RLt(last[2].position[i], last[3].position[i])
                   => last[4].normal[i] = RNeg(R1)
              /\ RLt(last[3].position[i], last[2].position[i])
                   => last[4].normal[i] = R1

\* C33 witness: a collision of two boxes whose overlaps on the x and the y
\* axis are equal and less than the overlap on the z axis.
C33_Witness ==
  /\ BoxCall
  /\ last[4].hit
  /\ AxisOverlap(last[2], last[3], 1) = AxisOverlap(last[2], last[3], 2)
  /\ RLt(AxisOverlap(last[2], last[3], 1), AxisOverlap(last[2], last[3], 3))
  /\ RLt(R0, last[4].depth)


SphereCall ==
  /\ last[1] = "checkCollision"
  /\ last[2].collider.shape = "sphere" /\ last[3].collider.shape = "sphere"
\* checkCollision with the two bodies of the recorded call exchanged.
Exchanged ==
  CheckShapes(VAdd(last[3].position, last[3].collider.offset), last[3].collider,
              VAdd(last[2].position, last[2].collider.offset), last[2].collider)

\* C39: for two spheres, checkCollision applied to (B, A) reports a
\* collision exactly when it does applied to (A, B), with the same depth and
\* with the negated normal, coincident centres included.
C39_SphereSymmetry ==
  SphereCall =>
    /\ Exchanged.hit = last[4].hit
    /\ last[4].hit =>
         /\ Exchanged.depth = last[4].depth
         /\ Exchanged.normal = VScale(last[4].normal, RNeg(R1))

\* C39 witness: a collision of two spheres of different radii whose centres
\* are apart, and so a normal that is not zero.
C39_Witness ==
  /\ SphereCall
  /\ last[4].hit
  /\ RadiusOf(last[2].collider) # RadiusOf(last[3].collider)
  /\ last[2].position # last[3].position
  /\ last[4].normal # Zero

\* C35: every collision delivered to a callback has a depth greater than 0
\* and a normal of length 1.
C35_PositiveDepthUnitNormal ==
  \A k \in 1 .. Len(collisionLog) :
    collisionLog[k].notified # <<>> =>
      /\ RLt(R0, collisionLog[k].depth)
      /\ VDot(collisionLog[k].normal, collisionLog[k].normal) = R1

(***************************************************************************)
(* SpecFrozen: a sphere that is excluded from integration, by              *)
(* freezePosition or by enabled = false, overlapped by a dynamic or a      *)
(* static sphere; impulses are applied and fixed steps are run.            *)
(***************************************************************************)
\* body.freezePosition = true.
Frozen(b) == [b EXCEPT !.freezePosition = TRUE]
FrozenBodies ==
  [e \in Ent |->
     CASE e = 0 -> {Frozen(DynamicSphere), Disabled(DynamicSphere), DynamicSphere}
       [] e = 1 -> {DynamicSphere, StaticSphere}
       [] OTHER -> {Frozen(DynamicSphere), Disabled(DynamicSphere)}]
FrozenPositions ==
  [e \in Ent |->
     CASE e = 0 -> {Zero}
       [] e = 1 -> {<<Half, R0, R0>>}
       [] OTHER -> {<<R0, <<5, 1>>, R0>>}]
InitFrozen ==
  /\ InitSceneWith(FrozenBodies, FrozenPositions)
  /\ InitSys
  /\ InitAcc({DefaultFixedTimeStep})
  /\ InitLast({"physicsFixedUpdate"})
NextFrozen ==
  \/ \E e \in Ent, f \in Forces : AddForce(e, f, "impulse")
  \/ \E dt \in StepSizes : PhysicsFixedUpdate(dt)
  \/ OnCollision
SpecFrozen == InitFrozen /\ [][NextFrozen]_vars

\* C34: a fixed step leaves the Transform position of every body with
\* freezePosition where it was, and leaves the velocity and the Transform
\* position of every body whose RigidBody is disabled as they were, also
\* when the body overlaps another.
C34_StepOfExcluded ==
  last'[1] = "physicsFixedUpdate" =>
    \A e \in Ent :
      /\ rigidBody[e].freezePosition =>
           transform'[e].position = transform[e].position
      /\ ~rigidBody[e].enabled =>
           /\ transform'[e].position = transform[e].position
           /\ rigidBody'[e].velocity = rigidBody[e].velocity
C34_ExcludedBodiesStay == [][C34_StepOfExcluded]_vars
\* The same for the bodies that took part in no collision of the step.
C34_StepOfExcludedApart ==
  last'[1] = "physicsFixedUpdate" =>
    \A e \in Ent :
      (\A k \in 1 .. Len(collisionLog') :
         e \notin {collisionLog'[k].entityA, collisionLog'[k].entityB}) =>
        /\ rigidBody[e].freezePosition =>
             transform'[e].position = transform[e].position
        /\ ~rigidBody[e].enabled =>
             /\ transform'[e].position = transform[e].position
             /\ rigidBody'[e].velocity = rigidBody[e].velocity

(***************************************************************************)
(* SystemManager.update with update methods that call addSystem.  The      *)
(* loop `for (const system of this.systems)` reads the array position      *)
(* after position, and addSystem pushes to and sorts that same array.      *)
(***************************************************************************)
\* manager.addSystem(s) called from an update method (System.ts 40-56).
AddDuring(st, s) ==
  IF st.systemsByType[SysClass(s)] # 0 THEN st
  ELSE [st EXCEPT !.systems = SortByPriority(Append(@, s)),
                  !.systemsByType[SysClass(s)] = s,
                  !.inserted = Append(@, s),
                  !.callLog = Append(@, <<"onStart", s, "manager">>)]
\* The body of system.update: nothing, or manager.addSystem(script[2]).
RunAdding(st, script) ==
  IF script[1] = "add" THEN AddDuring(st, script[2]) ELSE st
\* if (system.enabled) system.update(deltaTime) (System.ts 77-79).
CallAdding(st, s, script) ==
  IF st.sysEnabled[s]
  THEN RunAdding([st EXCEPT !.callLog = Append(@, <<"update", s, "manager">>)],
                 script)
  ELSE st
\* for (const system of this.systems), position i and the following.
RECURSIVE LiveLoop(_, _, _)
LiveLoop(st, i, does) ==
  IF i > Len(st.systems) THEN st
  ELSE LiveLoop(CallAdding(st, st.systems[i], does[st.systems[i]]), i + 1, does)

\* The classes of this specification have no PhysicsSystem among them: no
\* fixed step is run by the tick.
Adders == {1, 2, 4}
AddScripts == {Idle} \cup {<<"add", s>> : s \in Adders}

\* World.update(dt) -> SystemManager.update(dt) with the update methods
\* acting as `does` tells.
AddingUpdate(dt, does) ==
  /\ \A s \in Range(systems) : SysClass(s) # "PhysicsSystem"
  /\ \E st \in {LiveLoop(TickState, 1, does)} :
       /\ systems' = st.systems
       /\ systemsByType' = st.systemsByType
       /\ sysEnabled' = st.sysEnabled
       /\ inserted' = st.inserted
       /\ callLog' = st.callLog
  /\ last' = Note(<<"update", dt, does, 0, "">>)
  /\ UNCHANGED <<accVars, physVars>>
  /\ UNCHANGED <<trace, extVars, edVars, idxVars, ecsVars>>

(***************************************************************************)
(* SpecAdding: systems of the classes CustomA, CustomB (priority 0) and    *)
(* RenderSystem (priority 1000) are added, removed, enabled and disabled,  *)
(* and ticks are run in which one update method calls addSystem.           *)
(***************************************************************************)
InitAdding == InitEcs /\ InitRest /\ InitLast({"update"})
NextAdding ==
  \/ \E s \in Adders : AddSystem(s)
  \/ \E s \in Adders : RemoveSystem(SysClass(s))
  \/ \E s \in Adders, b \in BOOLEAN : SetEnabled(s, b)
  \/ \E a \in Adders, script \in AddScripts :
       AddingUpdate(DefaultFixedTimeStep, OneActs(a, script))
SpecAdding == InitAdding /\ [][NextAdding]_vars

\* How often the manager called update on system s.
UpdatesOf(log, s) ==
  Cardinality({k \in 1 .. Len(log) : log[k][1] = "update" /\ log[k][2] = s})

\* C36: in a tick in which an update method calls addSystem, every system
\* that was registered and enabled when the tick began is updated exactly
\* once.
C36_TickStep ==
  last'[1] = "update" =>
    \A s \in Range(systems) : sysEnabled[s] => UpdatesOf(callLog', s) = 1
C36_AddDuringTick == [][C36_TickStep]_vars

(***************************************************************************)
(* The objects the Transform getters return, modified in place             *)
(* (Light.ts 199-234), and TransformCommand (CommandHistory.ts 98-140).    *)
(* THREE.Vector3.copy and THREE.Quaternion.copy write the fields of the    *)
(* object; THREE.Euler.copy also calls the listener the Transform          *)
(* constructor registered.                                                 *)
(***************************************************************************)
\* transform.position.copy(v)
PositionCopy(t, v) == [t EXCEPT !.position = v]
\* transform.scale.copy(v)
ScaleCopy(t, v) == [t EXCEPT !.scale = v]
\* transform.quaternion.copy(q)
QuaternionCopy(t, q) == [t EXCEPT !.quaternion = q]
\* transform.rotation.copy(r)
RotationCopy(t, r) == OnRotationChange([t EXCEPT !.rotation = r])

CopyIntoPosition(e, v) ==
  TransformCall(e, "position.copy", PositionCopy(transform[e], v))
CopyIntoScale(e, v) ==
  TransformCall(e, "scale.copy", ScaleCopy(transform[e], v))
CopyIntoQuaternion(e, q) ==
  TransformCall(e, "quaternion.copy", QuaternionCopy(transform[e], q))
CopyIntoRotation(e, r) ==
  TransformCall(e, "rotation.copy", RotationCopy(transform[e], r))

\* TransformCommand constructor (CommandHistory.ts 108-121).
NewTransformCommand(e, old, new) ==
  [name |-> "Transform " \o name[e], entity |-> e,
   oldPosition |-> old.position, oldRotation |-> old.rotation,
   oldScale |-> old.scale,
   newPosition |-> new.position, newRotation |-> new.rotation,
   newScale |-> new.scale]
\* The three copies of execute and of undo.
CopyAll(t, position, rotation, scale) ==
  ScaleCopy(RotationCopy(PositionCopy(t, position), rotation), scale)
\* TransformCommand.execute (CommandHistory.ts 123-130).
TransformExecute(t, cmd) ==
  CopyAll(t, cmd.newPosition, cmd.newRotation, cmd.newScale)
\* TransformCommand.undo (CommandHistory.ts 132-139).
TransformUndo(t, cmd) ==
  CopyAll(t, cmd.oldPosition, cmd.oldRotation, cmd.oldScale)

\* history.execute(new TransformCommand(e, old, new)), old being what the
\* Transform of e holds.
ExecuteTransformCommand(e, new) ==
  /\ physOps < MaxTransformCalls
  /\ HasComponent(e, "Transform")
  /\ \E cmd \in {NewTransformCommand(e, transform[e], new)} :
       /\ transform' = [transform EXCEPT ![e] = TransformExecute(@, cmd)]
       /\ history' = [undoStack |-> PushLimited(history.undoStack, cmd),
                      redoStack |-> <<>>]
  /\ physOps' = physOps + 1
  /\ last' = Note(<<"historyExecute", e, Null, 0, "">>)
  /\ UNCHANGED <<pc, engine, trace, extVars, idxVars, ecsVars, sysVars, accVars,
                 collisionCallbacks, rigidBody, collisionLog, preCollision>>
\* history.undo() with a TransformCommand on the undo stack.
UndoTransformCommand ==
  /\ physOps < MaxTransformCalls
  /\ history.undoStack # <<>>
  /\ \E cmd \in {Top(history.undoStack)} :
       /\ transform' = [transform EXCEPT ![cmd.entity] = TransformUndo(@, cmd)]
       /\ history' = [undoStack |-> Pop(history.undoStack),
                      redoStack |-> Append(history.redoStack, cmd)]
       /\ last' = Note(<<"historyUndo", cmd.entity, Null, 0, "">>)
  /\ physOps' = physOps + 1
  /\ UNCHANGED <<pc, engine, trace, extVars, idxVars, ecsVars, sysVars, accVars,
                 collisionCallbacks, rigidBody, collisionLog, preCollision>>

(***************************************************************************)
(* SpecGetters: Transforms written through their setters, through the      *)
(* objects their getters return and through TransformCommands, and read    *)
(* through localMatrix.                                                    *)
(***************************************************************************)
\* The values a TransformCommand is constructed with.
Targets ==
  {[position |-> p, rotation |-> r, scale |-> sc] :
     p \in Offsets, r \in Angles, sc \in Scales}
InitGetters == InitDirty
NextGetters ==
  \/ \E e \in Movers, p \in Offsets : CopyIntoPosition(e, p)
  \/ \E e \in Movers, sc \in Scales : CopyIntoScale(e, sc)
  \/ \E e \in Movers, q \in Quaternions : CopyIntoQuaternion(e, q)
  \/ \E e \in Movers, r \in Angles : CopyIntoRotation(e, r)
  \/ \E e \in Movers, p \in Offsets : AssignPosition(e, p)
  \/ \E e \in Movers, new \in Targets : ExecuteTransformCommand(e, new)
  \/ UndoTransformCommand
  \/ \E e \in Movers : ReadLocalMatrix(e)
SpecGetters == InitGetters /\ [][NextGetters]_vars

\* C37: every read of localMatrix returns the composition of the position,
\* the quaternion and the scale the Transform holds, whatever writes came
\* before, writes into the objects the getters return included.
C37_LocalMatrixFresh ==
  last[1] = "localMatrix" =>
    last[4] = Compose(transform[last[2]].position, transform[last[2]].quaternion,
                      transform[last[2]].scale)


(***************************************************************************)
(* The order of one fixed step (part_001 42-97).  The step of              *)
(* ActingFixedUpdate leaves in last[3] what it did, in order.              *)
(***************************************************************************)
\* The pairs (list[i], list[j]) with i < j, in the order of the two loops.
RECURSIVE PairsFrom(_, _, _)
PairsFrom(list, i, j) ==
  IF i >= Len(list) THEN <<>>
  ELSE IF j > Len(list) THEN PairsFrom(list, i + 1, i + 2)
  ELSE <<(<<"pair", list[i], list[j]>>)>> \o PairsFrom(list, i, j + 1)

\* The events of one kind, in order.
OfKind(events, kinds) == SelectSeq(events, LAMBDA ev : ev[1] \in kinds)

\* The pair event at or before position n that is the latest one.
LatestPair(events, n) ==
  LET at == {k \in 1..n : events[k][1] = "pair"} IN
  IF at = {} THEN 0 ELSE CHOOSE k \in at : \A m \in at : m <= k

StepList == GetEntitiesWithComponents({"RigidBody", "Transform"})

OrderedStep(list, events) ==
  /\ Len(events) >= Len(list)
  /\ \A n \in 1..Len(list) : events[n] = <<"fixedUpdate", list[n]>>
  /\ \A n \in (Len(list) + 1)..Len(events) : events[n][1] # "fixedUpdate"
  /\ OfKind(events, {"pair"}) = PairsFrom(list, 1, 2)
  /\ \A n \in 1..Len(events) :
       /\ events[n][1] = "resolve" =>
            /\ LatestPair(events, n) > 0
            /\ events[LatestPair(events, n)] = <<"pair", events[n][2], events[n][3]>>
            /\ \A m \in (LatestPair(events, n) + 1)..(n - 1) : events[m][1] # "resolve"
       /\ events[n][1] = "callback" =>
            \E m \in (LatestPair(events, n) + 1)..(n - 1) : events[m][1] = "resolve"

C38_StepOf ==
  last'[1] = "physicsFixedUpdate" /\ last'[4] = 0 => OrderedStep(StepList, last'[3])

\* C38: in one fixed step RigidBody.fixedUpdate has run for every entity of
\* the step's list before the first pair is reached, the pairs of the list
\* are reached once each in the order of the two loops (i < j), and the
\* resolution and the callbacks of a pair come before the next pair.
C38_IntegrateThenPairsInOrder == [][C38_StepOf]_vars

\* A step over three bodies in which two pairs were resolved and reported.
C38_Witness ==
  /\ last[1] = "physicsFixedUpdate"
  /\ Len(OfKind(last[3], {"fixedUpdate"})) = 3
  /\ Len(OfKind(last[3], {"pair"})) = 3
  /\ Len(OfKind(last[3], {"resolve"})) >= 2
  /\ Len(OfKind(last[3], {"callback"})) >= 2


(***************************************************************************)
(* Engine.loop (Engine.ts 94-119): one frame.  The timestamps of           *)
(* performance.now() are numbers like every other; they are counted in the *)
(* quanta of the accumulator, so that the division by 1000 is the change   *)
(* of unit and the subtraction is what is rounded.                         *)
(***************************************************************************)
\* 0.1 s, in units of 1/240 s.
DeltaCap == 24
\* The largest timestamp performance.now() returns.
MaxNow == 64
Nows == {t \in 0 .. MaxNow : Representable(t)}

\* if (this.deltaTime > 0.1) this.deltaTime = 0.1
NoCap(deltaTime) == deltaTime
CapDelta(deltaTime) == IF deltaTime > DeltaCap THEN DeltaCap ELSE deltaTime

\* this.deltaTime = (currentTime - this.lastTime) / 1000, then the cap.
LoopDelta(currentTime, lastTime) == CapDelta(Fl(currentTime - lastTime))

\* The body of loop() past the test of running: the fields are set, the
\* update callbacks (none is registered) are called, world.update runs the
\* systems, and the next frame is requested.
RunFrame(currentTime, lastTime) ==
  \E deltaTime \in {LoopDelta(currentTime, lastTime)} :
    /\ engine' = [engine EXCEPT !.running = TRUE, !.lastTime = currentTime,
                                !.deltaTime = deltaTime]
    /\ IF PhysicsUpdated
       THEN /\ PhysicsUpdateFields(deltaTime)
            /\ callLog' = PhaseCalls(systems, "update",
                                     Accumulate(accumulator, deltaTime, fixedTimeStep)[2])
            /\ last' = Note(<<"loop", currentTime, deltaTime,
                              Accumulate(accumulator, deltaTime, fixedTimeStep)[2], "">>)
       ELSE /\ UNCHANGED <<accVars, physVars>>
            /\ callLog' = PhaseCalls(systems, "update", 0)
            /\ last' = Note(<<"loop", currentTime, deltaTime, 0, "">>)
    /\ UNCHANGED <<systems, systemsByType, sysEnabled, inserted, trace, extVars,
                   history, pc, idxVars, ecsVars>>

\* Engine.start (Engine.ts 79-84): lastTime = performance.now(), then the
\* first frame, which reads the clock again.
EngineStart(now, currentTime) ==
  /\ ~engine.running
  /\ engine.lastTime <= now /\ now <= currentTime
  /\ RunFrame(currentTime, now)

\* Engine.loop (Engine.ts 94-119) as the animation-frame callback.
EngineLoop(currentTime) ==
  /\ engine.running
  /\ engine.lastTime <= currentTime
  /\ RunFrame(currentTime, engine.lastTime)

\* Engine.stop (Engine.ts 86-91).
EngineStop ==
  /\ engine.running
  /\ engine' = [engine EXCEPT !.running = FALSE]
  /\ last' = Note(<<"stop", Null, Null, 0, "">>)
  /\ UNCHANGED <<trace, extVars, history, pc, idxVars, ecsVars, sysVars, accVars,
                 physVars>>

(***************************************************************************)
(* SpecEngine: an Engine as constructed, with its PhysicsSystem (priority  *)
(* 100) and RenderSystem (priority 1000) added to the World, started,      *)
(* run frame after frame at any intervals, stopped and started again; the  *)
(* PhysicsSystem may be disabled and enabled between frames.               *)
(***************************************************************************)
EngineSystems == <<3, 4>>
InitEngine ==
  /\ InitEcs /\ InitAcc({DefaultFixedTimeStep}) /\ InitPhys
  /\ systems = EngineSystems
  /\ systemsByType = [c \in Range(ClassNames) |->
                        IF \E i \in 1 .. Len(EngineSystems) : SysClass(EngineSystems[i]) = c
                        THEN CHOOSE s \in Range(EngineSystems) : SysClass(s) = c
                        ELSE 0]
  /\ sysEnabled = [s \in Systems |-> TRUE]
  /\ inserted = EngineSystems
  /\ callLog = <<>>
  /\ InitLast({"loop"})
NextEngine ==
  \/ \E now, currentTime \in Nows : EngineStart(now, currentTime)
  \/ \E currentTime \in Nows : EngineLoop(currentTime)
  \/ EngineStop
  \/ \E b \in BOOLEAN : SetEnabled(3, b)
SpecEngine == InitEngine /\ [][NextEngine]_vars

\* C40 as claimed: the delta of a frame is at most 0.1 s, the frame runs at
\* most 6 fixed steps, and the accumulator is below one step after it.
C40_AtMostSixSteps ==
  last[1] = "loop" =>
    /\ last[3] <= DeltaCap
    /\ last[4] <= 6
    /\ accumulator < fixedTimeStep

\* C40 amended: the delta of a frame is at most 0.1 s and the accumulator
\* is below one step after it; the frame runs at most 7 fixed steps, the
\* seventh when adding the delta to the remainder rounds up to 7 steps.
C40_AtMostSevenSteps ==
  last[1] = "loop" =>
    /\ last[3] <= DeltaCap
    /\ last[4] <= 7
    /\ accumulator < fixedTimeStep

\* C40 witness: a frame that came later than 0.1 s after the one before and
\* ran 7 fixed steps.
C40_Witness ==
  /\ last[1] = "loop"
  /\ last[3] = DeltaCap
  /\ last[4] = 7
  /\ accumulator < fixedTimeStep
  /\ engine.running
====
